---- MODULE Spec2Model ----
(***************************************************************************)
(* A model of ptp-hw-api: the clock-chain configuration pipeline           *)
(*   decode -> ResolveClockAliases -> NewPluginManager ->                  *)
(*   MergeUserConfigWithDefaults -> Validate                               *)
(* Go strings that the code inspects character by character (clock IDs,    *)
(* aliases, board labels, connectors) are sequences of one-character       *)
(* strings; names that are only compared are TLA+ strings.  A nil pointer  *)
(* or nil slice element is the empty sequence <<>>, a non-nil pointer to v *)
(* is <<v>>.  An error is a string, "nil" for no error.                    *)
(***************************************************************************)
EXTENDS Integers, Sequences, FiniteSets, TLC

VARIABLES
    pc,             \* position of the running program
    cc,             \* the ClockChain document (config in main)
    cc0,            \* the document as decoded, before any stage ran
    pluginsDir,     \* what the disk holds under the plugins directory's name
    pm,             \* <<>> or <<registry>>: the *PluginManager of main
    loop,           \* ApplyPluginDefaults position: condition, subsystem, labels left
    existingStates, \* ApplyPluginDefaults' map key -> *DesiredState
    stale,          \* backing arrays that append left behind, oldest first
    hist,           \* the conditions sequence after each completed merge run
    err,            \* the error the last stage returned
    arg,            \* input of a function under test
    ret             \* result of a function under test

vars == <<pc, cc, cc0, pluginsDir, pm, loop, existingStates, stale, hist, err, arg, ret>>

NoErr == "nil"

----------------------------------------------------------------------------
(* Sequences and strings *)

RECURSIVE SeqsUpTo(_, _)
SeqsUpTo(S, n) ==
    IF n = 0 THEN {<<>>}
    ELSE LET shorter == SeqsUpTo(S, n - 1)
         IN  shorter \cup {Append(s, x) : s \in {t \in shorter : Len(t) = n - 1}, x \in S}

Range(s) == {s[i] : i \in DOMAIN s}

(* The sequences of at most n distinct elements of S. *)
DistinctSeqsUpTo(S, n) == {s \in SeqsUpTo(S, n) : Cardinality(Range(s)) = Len(s)}

(* The subsequences of at most n elements of the sequence list, in its order. *)
SubSeqsUpTo(list, n) ==
    { [i \in 1..Len(q) |-> list[q[i]]] :
          q \in {q \in SeqsUpTo(1..Len(list), n) :
                    \A i, j \in 1..Len(q) : i < j => q[i] < q[j]} }

Digit == {"0", "1", "2", "3", "4", "5", "6", "7", "8", "9"}
LowerAF == {"a", "b", "c", "d", "e", "f"}
UpperAF == {"A", "B", "C", "D", "E", "F"}
Lower == LowerAF \cup {"g", "h", "i", "j", "k", "l", "m", "n", "o", "p", "q", "r",
                       "s", "t", "u", "v", "w", "x", "y", "z"}
Upper == UpperAF \cup {"G", "H", "I", "J", "K", "L", "M", "N", "O", "P", "Q", "R",
                       "S", "T", "U", "V", "W", "X", "Y", "Z"}

(* A regexp of the form ^a1 a2 ... an$ where each atom is a character class,
   taken once or (plus) one or more times.  Go's regexp anchors $ at the end
   of the text only. *)
One(cls) == [cls |-> cls, plus |-> FALSE]
Plus(cls) == [cls |-> cls, plus |-> TRUE]

RECURSIVE MatchAt(_, _, _, _)
MatchAt(pat, k, s, i) ==
    IF k > Len(pat) THEN i > Len(s)
    ELSE /\ i <= Len(s)
         /\ s[i] \in pat[k].cls
         /\ \/ MatchAt(pat, k + 1, s, i + 1)
            \/ pat[k].plus /\ MatchAt(pat, k, s, i + 1)

MatchString(pat, s) == MatchAt(pat, 1, s, 1)

hexPattern == <<One({"0"}), One({"x", "X"}), Plus(Digit \cup LowerAF \cup UpperAF)>>
decPattern == <<Plus(Digit)>>
alphanumDashPattern == <<Plus(Lower \cup Upper \cup Digit \cup {"_", "-"})>>

ValidateClockIDLowerX(clockID) ==
    IF MatchString(<<One({"0"}), One({"x"}), Plus(Digit \cup LowerAF \cup UpperAF)>>, clockID)
       \/ MatchString(decPattern, clockID)
    THEN NoErr
    ELSE "invalid clock ID format"

ValidateClockID(clockID) ==
    IF MatchString(hexPattern, clockID) \/ MatchString(decPattern, clockID)
    THEN NoErr
    ELSE "invalid clock ID format"

ValidateAlphanumDash(value) ==
    IF ~MatchString(alphanumDashPattern, value)
    THEN "value must contain only alphanumeric characters, dashes, and underscores"
    ELSE NoErr

----------------------------------------------------------------------------
(* Alias resolver *)

EmptyMap == [k \in {} |-> <<>>]

RECURSIVE BuildFrom(_, _, _)
BuildFrom(idents, i, aliasToClock) ==
    IF i > Len(idents) THEN [aliasToClock |-> aliasToClock, err |-> NoErr]
    ELSE LET ident == idents[i] IN
         IF ident.alias = <<>>
         THEN [aliasToClock |-> EmptyMap, err |-> "clockIdentifiers: alias must not be empty"]
         ELSE IF ValidateAlphanumDash(ident.alias) # NoErr
         THEN [aliasToClock |-> EmptyMap, err |-> "clockIdentifiers: invalid alias"]
         ELSE IF ValidateClockID(ident.clockID) # NoErr
         THEN [aliasToClock |-> EmptyMap, err |-> "clockIdentifiers: alias has invalid clockId"]
         ELSE IF ident.alias \in DOMAIN aliasToClock
         THEN [aliasToClock |-> EmptyMap, err |-> "clockIdentifiers: duplicate alias"]
         ELSE BuildFrom(idents, i + 1, (ident.alias :> ident.clockID) @@ aliasToClock)

BuildClockAliasMapNoDupCheck(doc) ==
    IF doc.commonDefinitions = <<>> THEN [aliasToClock |-> EmptyMap, err |-> NoErr]
    ELSE LET idents == doc.commonDefinitions[1].clockIdentifiers
             bad == {i \in DOMAIN idents :
                        \/ idents[i].alias = <<>>
                        \/ ValidateAlphanumDash(idents[i].alias) # NoErr
                        \/ ValidateClockID(idents[i].clockID) # NoErr}
         IN  IF bad # {}
             THEN [aliasToClock |-> EmptyMap, err |-> "clockIdentifiers: invalid entry"]
             ELSE [aliasToClock |->
                      [a \in {idents[i].alias : i \in DOMAIN idents} |->
                          idents[CHOOSE i \in DOMAIN idents : idents[i].alias = a].clockID],
                   err |-> NoErr]

BuildClockAliasMapNoTargetCheck(doc) ==
    IF doc.commonDefinitions = <<>> THEN [aliasToClock |-> EmptyMap, err |-> NoErr]
    ELSE LET idents == doc.commonDefinitions[1].clockIdentifiers
             bad == {i \in DOMAIN idents :
                        \/ idents[i].alias = <<>>
                        \/ ValidateAlphanumDash(idents[i].alias) # NoErr
                        \/ \E j \in 1..(i - 1) : idents[j].alias = idents[i].alias}
         IN  IF bad # {}
             THEN [aliasToClock |-> EmptyMap, err |-> "clockIdentifiers: invalid entry"]
             ELSE [aliasToClock |->
                      [a \in {idents[i].alias : i \in DOMAIN idents} |->
                          idents[CHOOSE i \in DOMAIN idents : idents[i].alias = a].clockID],
                   err |-> NoErr]

BuildClockAliasMap(doc) ==
    IF doc.commonDefinitions = <<>> THEN [aliasToClock |-> EmptyMap, err |-> NoErr]
    ELSE BuildFrom(doc.commonDefinitions[1].clockIdentifiers, 1, EmptyMap)

resolveClockIDValueAliasFirst(value, aliasToClock) ==
    IF value = <<>> THEN [value |-> value, err |-> NoErr]
    ELSE IF value \in DOMAIN aliasToClock
    THEN [value |-> aliasToClock[value], err |-> NoErr]
    ELSE IF ValidateClockID(value) = NoErr
    THEN [value |-> value, err |-> NoErr]
    ELSE [value |-> <<>>, err |-> "neither a valid clock ID nor a known alias"]

resolveClockIDValuePassThrough(value, aliasToClock) ==
    IF value = <<>> THEN [value |-> value, err |-> NoErr]
    ELSE IF ValidateClockID(value) = NoErr
    THEN [value |-> value, err |-> NoErr]
    ELSE IF value \in DOMAIN aliasToClock
    THEN [value |-> aliasToClock[value], err |-> NoErr]
    ELSE [value |-> value, err |-> NoErr]

(* resolveClockIDValue that accepts a known alias and leaves it in the field. *)
resolveClockIDValueKeepAlias(value, aliasToClock) ==
    IF value = <<>> THEN [value |-> value, err |-> NoErr]
    ELSE IF ValidateClockID(value) = NoErr
    THEN [value |-> value, err |-> NoErr]
    ELSE IF value \in DOMAIN aliasToClock
    THEN [value |-> value, err |-> NoErr]
    ELSE [value |-> <<>>, err |-> "neither a valid clock ID nor a known alias"]

resolveClockIDValue(value, aliasToClock) ==
    IF value = <<>> THEN [value |-> value, err |-> NoErr]
    ELSE IF ValidateClockID(value) = NoErr
    THEN [value |-> value, err |-> NoErr]
    ELSE IF value \in DOMAIN aliasToClock
    THEN [value |-> aliasToClock[value], err |-> NoErr]
    ELSE [value |-> <<>>, err |-> "neither a valid clock ID nor a known alias"]

NoPath == [field |-> "", i |-> 0, j |-> 0]

RECURSIVE ResolveDesiredStates(_, _, _, _)
ResolveDesiredStates(doc, ci, di, aliasToClock) ==
    LET conds == doc.behavior[1].conditions IN
    IF ci > Len(conds) THEN [cc |-> doc, err |-> NoErr, at |-> NoPath]
    ELSE IF di > Len(conds[ci].desiredStates)
    THEN ResolveDesiredStates(doc, ci + 1, 1, aliasToClock)
    ELSE LET r == resolveClockIDValue(conds[ci].desiredStates[di].clockID, aliasToClock) IN
         IF r.err # NoErr
         THEN [cc |-> doc, err |-> r.err,
               at |-> [field |-> "behavior.conditions.desiredStates.clockId", i |-> ci, j |-> di]]
         ELSE ResolveDesiredStates(
                  [doc EXCEPT !.behavior[1].conditions[ci].desiredStates[di].clockID = r.value],
                  ci, di + 1, aliasToClock)

(* ResolveSources that goes on to the desired states after a source failed. *)
RECURSIVE ResolveSourcesContinue(_, _, _)
ResolveSourcesContinue(doc, i, aliasToClock) ==
    IF i > Len(doc.behavior[1].sources) THEN ResolveDesiredStates(doc, 1, 1, aliasToClock)
    ELSE LET r == resolveClockIDValue(doc.behavior[1].sources[i].clockID, aliasToClock) IN
         IF r.err # NoErr
         THEN [cc |-> ResolveDesiredStates(doc, 1, 1, aliasToClock).cc, err |-> r.err,
               at |-> [field |-> "behavior.sources.clockId", i |-> i, j |-> 0]]
         ELSE ResolveSourcesContinue([doc EXCEPT !.behavior[1].sources[i].clockID = r.value],
                                     i + 1, aliasToClock)

RECURSIVE ResolveSources(_, _, _)
ResolveSources(doc, i, aliasToClock) ==
    IF i > Len(doc.behavior[1].sources) THEN ResolveDesiredStates(doc, 1, 1, aliasToClock)
    ELSE LET r == resolveClockIDValue(doc.behavior[1].sources[i].clockID, aliasToClock) IN
         IF r.err # NoErr
         THEN [cc |-> doc, err |-> r.err,
               at |-> [field |-> "behavior.sources.clockId", i |-> i, j |-> 0]]
         ELSE ResolveSources([doc EXCEPT !.behavior[1].sources[i].clockID = r.value],
                             i + 1, aliasToClock)

RECURSIVE ResolveDPLLs(_, _, _)
ResolveDPLLs(doc, si, aliasToClock) ==
    IF si > Len(doc.structure)
    THEN IF doc.behavior = <<>>
         THEN [cc |-> doc, err |-> NoErr, at |-> NoPath]
         ELSE ResolveSources(doc, 1, aliasToClock)
    ELSE IF doc.structure[si].dpll.clockID # <<>>
    THEN LET r == resolveClockIDValue(doc.structure[si].dpll.clockID, aliasToClock) IN
         IF r.err # NoErr
         THEN [cc |-> doc, err |-> r.err,
               at |-> [field |-> "structure.DPLL.clockId", i |-> si, j |-> 0]]
         ELSE ResolveDPLLs([doc EXCEPT !.structure[si].dpll.clockID = r.value],
                           si + 1, aliasToClock)
    ELSE ResolveDPLLs(doc, si + 1, aliasToClock)

ResolveClockAliases(doc) ==
    LET built == BuildClockAliasMap(doc) IN
    IF built.err # NoErr
    THEN [cc |-> doc, err |-> built.err, at |-> NoPath]
    ELSE ResolveDPLLs(doc, 1, built.aliasToClock)

----------------------------------------------------------------------------
(* Plugin registry *)

IsPluginFile(file) == ~file.isDir /\ (file.ext = ".yaml" \/ file.ext = ".yml")

(* LoadPlugin: file.content is <<>> when the file cannot be read or decoded,
   else <<plugin>>. *)
LoadPlugin(plugins, file) ==
    IF file.content = <<>>
    THEN [plugins |-> plugins, err |-> "failed to parse plugin YAML"]
    ELSE LET plugin == file.content[1] IN
         IF plugin.pluginInfo.name = ""
         THEN [plugins |-> plugins, err |-> "plugin must have a name"]
         ELSE [plugins |-> (plugin.pluginInfo.name :> plugin) @@ plugins, err |-> NoErr]

RECURSIVE LoadFilesSkipBad(_, _, _)
LoadFilesSkipBad(plugins, files, i) ==
    IF i > Len(files) THEN [plugins |-> plugins, err |-> NoErr]
    ELSE IF IsPluginFile(files[i])
    THEN LoadFilesSkipBad(LoadPlugin(plugins, files[i]).plugins, files, i + 1)
    ELSE LoadFilesSkipBad(plugins, files, i + 1)

RECURSIVE LoadFiles(_, _, _)
LoadFiles(plugins, files, i) ==
    IF i > Len(files) THEN [plugins |-> plugins, err |-> NoErr]
    ELSE IF IsPluginFile(files[i])
    THEN LET r == LoadPlugin(plugins, files[i]) IN
         IF r.err # NoErr
         THEN [plugins |-> r.plugins, err |-> "failed to load plugin"]
         ELSE LoadFiles(r.plugins, files, i + 1)
    ELSE LoadFiles(plugins, files, i + 1)

LoadPluginsMissingIsError(plugins, dir) ==
    IF dir = <<>> THEN [plugins |-> plugins, err |-> "failed to read plugins directory"]
    ELSE IF ~dir[1].readable
    THEN [plugins |-> plugins, err |-> "failed to read plugins directory"]
    ELSE LoadFiles(plugins, dir[1].files, 1)

(* dir is <<>> when the directory does not exist. *)
LoadPlugins(plugins, dir) ==
    IF dir = <<>> THEN [plugins |-> plugins, err |-> NoErr]
    ELSE IF ~dir[1].readable
    THEN [plugins |-> plugins, err |-> "failed to read plugins directory"]
    ELSE LoadFiles(plugins, dir[1].files, 1)

NewPluginManager(dir) ==
    LET r == LoadPlugins(EmptyMap, dir) IN
    IF r.err # NoErr
    THEN [pm |-> <<>>, err |-> "failed to load plugins"]
    ELSE [pm |-> <<[plugins |-> r.plugins]>>, err |-> NoErr]

(* GetPlugin: <<>> when the name is not in the registry. *)
GetPlugin(manager, name) ==
    IF name \in DOMAIN manager.plugins THEN <<manager.plugins[name]>> ELSE <<>>

ListPlugins(manager) == DOMAIN manager.plugins

----------------------------------------------------------------------------
(* Default merge engine *)

MergeKey(clockID, boardLabel) == clockID \o <<":">> \o boardLabel

IsDefaultCondition(condition) ==
    Len(condition.sources) > 0 /\ condition.sources[1].conditionType = "default"

(* append on a full slice allocates a new backing array of doubled capacity
   (Go's growslice for small slices of 48-byte elements). *)
GrowCap(cap) == IF cap = 0 THEN 1 ELSE 2 * cap

(* A *DesiredState is [gen, idx]: element idx of the gen-th backing array the
   condition's slice has had during this ApplyPluginDefaults call.  The slice
   itself is the array of generation Len(old) + 1. *)
Deref(p, desiredStates, old) ==
    IF p.gen = Len(old) + 1 THEN desiredStates[p.idx] ELSE old[p.gen][p.idx]

(* The map built at the start of ApplyPluginDefaults: a later entry with the
   same key overwrites an earlier one. *)
BuildExistingStates(desiredStates) ==
    LET keyOf(i) == MergeKey(desiredStates[i].clockID, desiredStates[i].boardLabel)
        keys == {keyOf(i) : i \in DOMAIN desiredStates}
        last(k) == CHOOSE i \in DOMAIN desiredStates :
                       /\ keyOf(i) = k
                       /\ \A j \in DOMAIN desiredStates : keyOf(j) = k => j <= i
    IN  [k \in keys |-> [gen |-> 1, idx |-> last(k)]]

CopyPinState(d) ==
    IF d = <<>> THEN <<>> ELSE <<[priority |-> d[1].priority, state |-> d[1].state]>>

(* applySubsystemDefaultsStep with the plugin's EEC copied over an EEC the user set. *)
applySubsystemDefaultsStepOverwrite(m, clockID, boardLabel, specificDefaults) ==
    LET key == MergeKey(clockID, boardLabel)
        cur == Len(m.old) + 1
    IN  IF key \in DOMAIN m.existing
        THEN LET p == m.existing[key]
                 existingState == Deref(p, m.desiredStates, m.old)
                 withEEC == IF specificDefaults.eec # <<>>
                            THEN [existingState EXCEPT !.eec = CopyPinState(specificDefaults.eec)]
                            ELSE existingState
                 filled == IF withEEC.pps = <<>> /\ specificDefaults.pps # <<>>
                           THEN [withEEC EXCEPT !.pps = CopyPinState(specificDefaults.pps)]
                           ELSE withEEC
             IN  IF p.gen = cur
                 THEN [m EXCEPT !.desiredStates[p.idx] = filled]
                 ELSE [m EXCEPT !.old[p.gen][p.idx] = filled]
        ELSE LET newState == [clockID |-> clockID, boardLabel |-> boardLabel,
                              eec |-> CopyPinState(specificDefaults.eec),
                              pps |-> CopyPinState(specificDefaults.pps)]
                 at == Len(m.desiredStates) + 1
             IN  IF newState.eec # <<>> \/ newState.pps # <<>>
                 THEN IF Len(m.desiredStates) < m.cap
                      THEN [m EXCEPT !.desiredStates = Append(@, newState),
                                     !.existing = (key :> [gen |-> cur, idx |-> at]) @@ @]
                      ELSE [desiredStates |-> Append(m.desiredStates, newState),
                            cap |-> GrowCap(m.cap),
                            existing |-> (key :> [gen |-> cur + 1, idx |-> at]) @@ m.existing,
                            old |-> Append(m.old, m.desiredStates)]
                 ELSE m

(* applySubsystemDefaultsStep that leaves an appended entry out of the map. *)
applySubsystemDefaultsStepNoRegister(m, clockID, boardLabel, specificDefaults) ==
    LET key == MergeKey(clockID, boardLabel)
        cur == Len(m.old) + 1
    IN  IF key \in DOMAIN m.existing
        THEN LET p == m.existing[key]
                 existingState == Deref(p, m.desiredStates, m.old)
                 withEEC == IF existingState.eec = <<>> /\ specificDefaults.eec # <<>>
                            THEN [existingState EXCEPT !.eec = CopyPinState(specificDefaults.eec)]
                            ELSE existingState
                 filled == IF withEEC.pps = <<>> /\ specificDefaults.pps # <<>>
                           THEN [withEEC EXCEPT !.pps = CopyPinState(specificDefaults.pps)]
                           ELSE withEEC
             IN  IF p.gen = cur
                 THEN [m EXCEPT !.desiredStates[p.idx] = filled]
                 ELSE [m EXCEPT !.old[p.gen][p.idx] = filled]
        ELSE LET newState == [clockID |-> clockID, boardLabel |-> boardLabel,
                              eec |-> CopyPinState(specificDefaults.eec),
                              pps |-> CopyPinState(specificDefaults.pps)]
                 at == Len(m.desiredStates) + 1
             IN  IF newState.eec # <<>> \/ newState.pps # <<>>
                 THEN IF Len(m.desiredStates) < m.cap
                      THEN [m EXCEPT !.desiredStates = Append(@, newState)]
                      ELSE [desiredStates |-> Append(m.desiredStates, newState),
                            cap |-> GrowCap(m.cap),
                            existing |-> m.existing,
                            old |-> Append(m.old, m.desiredStates)]
                 ELSE m

(* applySubsystemDefaultsStep that appends an entry with neither EEC nor PPS. *)
applySubsystemDefaultsStepAppendAlways(m, clockID, boardLabel, specificDefaults) ==
    LET key == MergeKey(clockID, boardLabel)
        cur == Len(m.old) + 1
    IN  IF key \in DOMAIN m.existing
        THEN LET p == m.existing[key]
                 existingState == Deref(p, m.desiredStates, m.old)
                 withEEC == IF existingState.eec = <<>> /\ specificDefaults.eec # <<>>
                            THEN [existingState EXCEPT !.eec = CopyPinState(specificDefaults.eec)]
                            ELSE existingState
                 filled == IF withEEC.pps = <<>> /\ specificDefaults.pps # <<>>
                           THEN [withEEC EXCEPT !.pps = CopyPinState(specificDefaults.pps)]
                           ELSE withEEC
             IN  IF p.gen = cur
                 THEN [m EXCEPT !.desiredStates[p.idx] = filled]
                 ELSE [m EXCEPT !.old[p.gen][p.idx] = filled]
        ELSE LET newState == [clockID |-> clockID, boardLabel |-> boardLabel,
                              eec |-> CopyPinState(specificDefaults.eec),
                              pps |-> CopyPinState(specificDefaults.pps)]
                 at == Len(m.desiredStates) + 1
             IN  IF TRUE
                 THEN IF Len(m.desiredStates) < m.cap
                      THEN [m EXCEPT !.desiredStates = Append(@, newState),
                                     !.existing = (key :> [gen |-> cur, idx |-> at]) @@ @]
                      ELSE [desiredStates |-> Append(m.desiredStates, newState),
                            cap |-> GrowCap(m.cap),
                            existing |-> (key :> [gen |-> cur + 1, idx |-> at]) @@ m.existing,
                            old |-> Append(m.old, m.desiredStates)]
                 ELSE m

(* One iteration of the range loop of applySubsystemDefaults, on
   m = [desiredStates, cap, existing, old]: the condition's slice and its
   capacity, the existingStates map, and the arrays left behind. *)
applySubsystemDefaultsStep(m, clockID, boardLabel, specificDefaults) ==
    LET key == MergeKey(clockID, boardLabel)
        cur == Len(m.old) + 1
    IN  IF key \in DOMAIN m.existing
        THEN LET p == m.existing[key]
                 existingState == Deref(p, m.desiredStates, m.old)
                 withEEC == IF existingState.eec = <<>> /\ specificDefaults.eec # <<>>
                            THEN [existingState EXCEPT !.eec = CopyPinState(specificDefaults.eec)]
                            ELSE existingState
                 filled == IF withEEC.pps = <<>> /\ specificDefaults.pps # <<>>
                           THEN [withEEC EXCEPT !.pps = CopyPinState(specificDefaults.pps)]
                           ELSE withEEC
             IN  IF p.gen = cur
                 THEN [m EXCEPT !.desiredStates[p.idx] = filled]
                 ELSE [m EXCEPT !.old[p.gen][p.idx] = filled]
        ELSE LET newState == [clockID |-> clockID, boardLabel |-> boardLabel,
                              eec |-> CopyPinState(specificDefaults.eec),
                              pps |-> CopyPinState(specificDefaults.pps)]
                 at == Len(m.desiredStates) + 1
             IN  IF newState.eec # <<>> \/ newState.pps # <<>>
                 THEN IF Len(m.desiredStates) < m.cap
                      THEN [m EXCEPT !.desiredStates = Append(@, newState),
                                     !.existing = (key :> [gen |-> cur, idx |-> at]) @@ @]
                      ELSE [desiredStates |-> Append(m.desiredStates, newState),
                            cap |-> GrowCap(m.cap),
                            existing |-> (key :> [gen |-> cur + 1, idx |-> at]) @@ m.existing,
                            old |-> Append(m.old, m.desiredStates)]
                 ELSE m

(* defaultCondition with a source name that is not the sentinel. *)
defaultConditionOtherSource ==
    [name |-> "Default Configuration (Auto-generated)",
     sources |-> <<[sourceName |-> "Default", conditionType |-> "default"]>>,
     desiredStates |-> <<>>,
     dsCap |-> 0]

defaultCondition ==
    [name |-> "Default Configuration (Auto-generated)",
     sources |-> <<[sourceName |-> "Default on profile (re)load", conditionType |-> "default"]>>,
     desiredStates |-> <<>>,
     dsCap |-> 0]

(* EnsureDefaultCondition with the new condition put last. *)
EnsureDefaultConditionLast(doc) ==
    LET conditions == doc.behavior[1].conditions
        hasDefaultCondition == \E i \in DOMAIN conditions : IsDefaultCondition(conditions[i])
    IN  IF ~hasDefaultCondition
        THEN [doc EXCEPT !.behavior[1].conditions = @ \o <<defaultCondition>>]
        ELSE doc

(* EnsureDefaultCondition looking for a default condition at the last index
   only. *)
EnsureDefaultConditionChecksLast(doc) ==
    LET conditions == doc.behavior[1].conditions
        hasDefaultCondition ==
            conditions # <<>> /\ IsDefaultCondition(conditions[Len(conditions)])
    IN  IF ~hasDefaultCondition
        THEN [doc EXCEPT !.behavior[1].conditions = <<defaultCondition>> \o @]
        ELSE doc

(* Lines 194-218 of MergeUserConfigWithDefaults, for a document with a
   behavior section. *)
EnsureDefaultCondition(doc) ==
    LET conditions == doc.behavior[1].conditions
        hasDefaultCondition == \E i \in DOMAIN conditions : IsDefaultCondition(conditions[i])
    IN  IF ~hasDefaultCondition
        THEN [doc EXCEPT !.behavior[1].conditions = <<defaultCondition>> \o @]
        ELSE doc

(* The next (condition, subsystem) pair, at or after (ci, si), whose range
   loop over plugin.SpecificDefaults has an iteration to run; ci is past the
   last condition when there is none. *)
DeclaredLabels(dpll) ==
    DOMAIN dpll.phaseInputs \cup DOMAIN dpll.phaseOutputs
        \cup DOMAIN dpll.frequencyInputs \cup DOMAIN dpll.frequencyOutputs

(* Seek passing over a subsystem that declares none of its plugin's labels. *)
RECURSIVE SeekDeclaredOnly(_, _, _, _)
SeekDeclaredOnly(doc, manager, ci, si) ==
    LET conditions == doc.behavior[1].conditions IN
    IF ci > Len(conditions) THEN [ci |-> ci, si |-> 0]
    ELSE IF ~IsDefaultCondition(conditions[ci]) THEN SeekDeclaredOnly(doc, manager, ci + 1, 1)
    ELSE IF si > Len(doc.structure) THEN SeekDeclaredOnly(doc, manager, ci + 1, 1)
    ELSE LET subsystem == doc.structure[si] IN
         IF subsystem.hardwarePlugin = "" THEN SeekDeclaredOnly(doc, manager, ci, si + 1)
         ELSE LET plugin == GetPlugin(manager, subsystem.hardwarePlugin) IN
              IF plugin = <<>> THEN SeekDeclaredOnly(doc, manager, ci, si + 1)
              ELSE IF DOMAIN plugin[1].specificDefaults \cap DeclaredLabels(subsystem.dpll) = {}
              THEN SeekDeclaredOnly(doc, manager, ci, si + 1)
              ELSE [ci |-> ci, si |-> si]

RECURSIVE SeekStopAtMissingPlugin(_, _, _, _)
SeekStopAtMissingPlugin(doc, manager, ci, si) ==
    LET conditions == doc.behavior[1].conditions IN
    IF ci > Len(conditions) THEN [ci |-> ci, si |-> 0]
    ELSE IF ~IsDefaultCondition(conditions[ci])
    THEN SeekStopAtMissingPlugin(doc, manager, ci + 1, 1)
    ELSE IF si > Len(doc.structure) THEN SeekStopAtMissingPlugin(doc, manager, ci + 1, 1)
    ELSE LET subsystem == doc.structure[si] IN
         IF subsystem.hardwarePlugin = ""
         THEN SeekStopAtMissingPlugin(doc, manager, ci, si + 1)
         ELSE LET plugin == GetPlugin(manager, subsystem.hardwarePlugin) IN
              IF plugin = <<>> THEN [ci |-> Len(conditions) + 1, si |-> 0]
              ELSE IF DOMAIN plugin[1].specificDefaults = {}
              THEN SeekStopAtMissingPlugin(doc, manager, ci, si + 1)
              ELSE [ci |-> ci, si |-> si]

(* Seek without the condition type check of ApplyPluginDefaults. *)
RECURSIVE SeekAnyCondition(_, _, _, _)
SeekAnyCondition(doc, manager, ci, si) ==
    LET conditions == doc.behavior[1].conditions IN
    IF ci > Len(conditions) THEN [ci |-> ci, si |-> 0]
    ELSE IF si > Len(doc.structure) THEN SeekAnyCondition(doc, manager, ci + 1, 1)
    ELSE LET subsystem == doc.structure[si] IN
         IF subsystem.hardwarePlugin = "" THEN SeekAnyCondition(doc, manager, ci, si + 1)
         ELSE LET plugin == GetPlugin(manager, subsystem.hardwarePlugin) IN
              IF plugin = <<>> THEN SeekAnyCondition(doc, manager, ci, si + 1)
              ELSE IF DOMAIN plugin[1].specificDefaults = {}
              THEN SeekAnyCondition(doc, manager, ci, si + 1)
              ELSE [ci |-> ci, si |-> si]

RECURSIVE Seek(_, _, _, _)
Seek(doc, manager, ci, si) ==
    LET conditions == doc.behavior[1].conditions IN
    IF ci > Len(conditions) THEN [ci |-> ci, si |-> 0]
    ELSE IF ~IsDefaultCondition(conditions[ci]) THEN Seek(doc, manager, ci + 1, 1)
    ELSE IF si > Len(doc.structure) THEN Seek(doc, manager, ci + 1, 1)
    ELSE LET subsystem == doc.structure[si] IN
         IF subsystem.hardwarePlugin = "" THEN Seek(doc, manager, ci, si + 1)
         ELSE LET plugin == GetPlugin(manager, subsystem.hardwarePlugin) IN
              IF plugin = <<>> THEN Seek(doc, manager, ci, si + 1)
              ELSE IF DOMAIN plugin[1].specificDefaults = {} THEN Seek(doc, manager, ci, si + 1)
              ELSE [ci |-> ci, si |-> si]

----------------------------------------------------------------------------
(* Validator.  Validate returns the first violation it meets; the pin configs
   of a subsystem are visited in map order, so ValidateErrs is the set of
   errors a call may return: {NoErr} exactly when the document is valid. *)

DefaultSourceName == "Default on profile (re)load"

PinConfigValidate(config) ==
    IF config.frequency # <<>> /\ config.syncTechnologyConfigName # ""
    THEN "frequency and syncTechnologyConfigName are mutually exclusive"
    ELSE IF config.connector # <<>> /\ ValidateAlphanumDash(config.connector) # NoErr
    THEN "invalid connector format"
    ELSE NoErr

SourceConfigValidate(source) ==
    IF ValidateClockID(source.clockID) # NoErr THEN "invalid source: invalid clock ID"
    ELSE IF source.sourceType = "ptpTimeReceiver" /\ Len(source.ptpTimeReceivers) = 0
    THEN "invalid source: ptpTimeReceivers must be specified"
    ELSE IF \E i \in DOMAIN source.ptpTimeReceivers :
                ValidateAlphanumDash(source.ptpTimeReceivers[i]) # NoErr
    THEN "invalid source: invalid PTP time receiver format"
    ELSE NoErr

(* The first empty or repeated name of a list of definitions. *)
RECURSIVE DefinitionNamesErr(_, _, _, _)
DefinitionNamesErr(defs, i, seen, kind) ==
    IF i > Len(defs) THEN NoErr
    ELSE IF defs[i].name = "" THEN kind \o " definition name must not be empty"
    ELSE IF defs[i].name \in seen THEN "duplicate " \o kind \o " definition name"
    ELSE DefinitionNamesErr(defs, i + 1, seen \cup {defs[i].name}, kind)

NamesOf(defs) == {defs[i].name : i \in DOMAIN defs}

(* allPinConfigs: a label of a later mapping replaces that of an earlier one. *)
AllPinConfigs(dpll) ==
    dpll.frequencyOutputs @@ dpll.frequencyInputs @@ dpll.phaseOutputs @@ dpll.phaseInputs

PinErr(dpll, label, esyncNames, refsyncNames) ==
    LET config == AllPinConfigs(dpll)[label]
        phaseLabels == DOMAIN dpll.phaseInputs \cup DOMAIN dpll.phaseOutputs
    IN  IF PinConfigValidate(config) # NoErr
        THEN "invalid pin config: " \o PinConfigValidate(config)
        ELSE IF /\ config.syncTechnologyConfigName # ""
                /\ config.syncTechnologyConfigName \notin esyncNames
                /\ config.syncTechnologyConfigName \notin refsyncNames
        THEN "referenced sync technology config not found"
        ELSE IF config.referenceSync # <<>>
        THEN IF label \notin DOMAIN dpll.frequencyInputs
             THEN IF label \in DOMAIN dpll.frequencyOutputs
                  THEN "referenceSync is not supported on frequency output pin"
                  ELSE "referenceSync specified on non-frequency-input pin"
             ELSE IF config.referenceSync \notin phaseLabels
             THEN "referenceSync not found among phase pins"
             ELSE NoErr
        ELSE NoErr

SubsystemErrs(subsystem, esyncNames, refsyncNames) ==
    IF subsystem.dpll.clockID # <<>> /\ ValidateClockID(subsystem.dpll.clockID) # NoErr
    THEN {"invalid clock ID in subsystem"}
    ELSE {PinErr(subsystem.dpll, label, esyncNames, refsyncNames) :
             label \in DOMAIN AllPinConfigs(subsystem.dpll)} \ {NoErr}

RECURSIVE SourcesErr(_, _, _)
SourcesErr(sources, i, sourceNames) ==
    IF i > Len(sources) THEN NoErr
    ELSE IF SourceConfigValidate(sources[i]) # NoErr THEN SourceConfigValidate(sources[i])
    ELSE IF sources[i].name \in sourceNames THEN "duplicate source name"
    ELSE SourcesErr(sources, i + 1, sourceNames \cup {sources[i].name})

(* ConditionErr that looks at the first source-state of a condition only. *)
ConditionErrFirstSourceOnly(condition, sourceNames) ==
    IF /\ condition.sources # <<>>
       /\ condition.sources[1].sourceName # DefaultSourceName
       /\ condition.sources[1].sourceName \notin sourceNames
    THEN "referenced source not found in condition"
    ELSE IF \E i \in DOMAIN condition.desiredStates :
                /\ condition.desiredStates[i].clockID # <<>>
                /\ ValidateClockID(condition.desiredStates[i].clockID) # NoErr
    THEN "invalid clock ID in desired state"
    ELSE NoErr

ConditionErr(condition, sourceNames) ==
    IF \E i \in DOMAIN condition.sources :
           /\ condition.sources[i].sourceName # DefaultSourceName
           /\ condition.sources[i].sourceName \notin sourceNames
    THEN "referenced source not found in condition"
    ELSE IF \E i \in DOMAIN condition.desiredStates :
                /\ condition.desiredStates[i].clockID # <<>>
                /\ ValidateClockID(condition.desiredStates[i].clockID) # NoErr
    THEN "invalid clock ID in desired state"
    ELSE NoErr

BehaviorErr(doc) ==
    IF doc.behavior = <<>> THEN NoErr
    ELSE LET behavior == doc.behavior[1]
             srcErr == SourcesErr(behavior.sources, 1, {})
             sourceNames == {behavior.sources[i].name : i \in DOMAIN behavior.sources}
             bad == {i \in DOMAIN behavior.conditions :
                        ConditionErr(behavior.conditions[i], sourceNames) # NoErr}
         IN  IF srcErr # NoErr THEN srcErr
             ELSE IF bad # {}
             THEN ConditionErr(behavior.conditions[CHOOSE i \in bad : \A j \in bad : i <= j],
                               sourceNames)
             ELSE NoErr

ValidateErrsBehaviorFirst(doc) ==
    LET defs == doc.commonDefinitions
        esyncErr == IF defs = <<>> THEN NoErr
                    ELSE DefinitionNamesErr(defs[1].eSyncDefinitions, 1, {}, "eSync")
        refsyncErr == IF defs = <<>> THEN NoErr
                      ELSE DefinitionNamesErr(defs[1].refSyncDefinitions, 1, {}, "refSync")
        esyncNames == IF defs = <<>> THEN {} ELSE NamesOf(defs[1].eSyncDefinitions)
        refsyncNames == IF defs = <<>> THEN {} ELSE NamesOf(defs[1].refSyncDefinitions)
        bad == {si \in DOMAIN doc.structure :
                   SubsystemErrs(doc.structure[si], esyncNames, refsyncNames) # {}}
    IN  IF Len(doc.structure) = 0 THEN {"structure must contain at least one subsystem"}
        ELSE IF esyncErr # NoErr THEN {esyncErr}
        ELSE IF refsyncErr # NoErr THEN {refsyncErr}
        ELSE IF BehaviorErr(doc) # NoErr THEN {BehaviorErr(doc)}
        ELSE IF bad # {}
        THEN SubsystemErrs(doc.structure[CHOOSE si \in bad : \A sj \in bad : si <= sj],
                           esyncNames, refsyncNames)
        ELSE {NoErr}

ValidateErrs(doc) ==
    LET defs == doc.commonDefinitions
        esyncErr == IF defs = <<>> THEN NoErr
                    ELSE DefinitionNamesErr(defs[1].eSyncDefinitions, 1, {}, "eSync")
        refsyncErr == IF defs = <<>> THEN NoErr
                      ELSE DefinitionNamesErr(defs[1].refSyncDefinitions, 1, {}, "refSync")
        esyncNames == IF defs = <<>> THEN {} ELSE NamesOf(defs[1].eSyncDefinitions)
        refsyncNames == IF defs = <<>> THEN {} ELSE NamesOf(defs[1].refSyncDefinitions)
        bad == {si \in DOMAIN doc.structure :
                   SubsystemErrs(doc.structure[si], esyncNames, refsyncNames) # {}}
    IN  IF Len(doc.structure) = 0 THEN {"structure must contain at least one subsystem"}
        ELSE IF esyncErr # NoErr THEN {esyncErr}
        ELSE IF refsyncErr # NoErr THEN {refsyncErr}
        ELSE IF bad # {}
        THEN SubsystemErrs(doc.structure[CHOOSE si \in bad : \A sj \in bad : si <= sj],
                           esyncNames, refsyncNames)
        ELSE {BehaviorErr(doc)}

----------------------------------------------------------------------------
(* Bounds and the documents, plugin directories and inputs explored *)

MaxSubsystems == 2      \* subsystems in structure
MaxConditions == 2      \* conditions the user wrote
MaxUserStates == 2      \* desired states the user wrote, over the document
MaxRuns == 2            \* calls of MergeUserConfigWithDefaults on one document

Clock112233 == <<"0", "x", "1", "1", "2", "2", "3", "3">>
Clock42 == <<"4", "2">>
AliasGM == <<"G", "M">>
GNSS_1PPS == <<"G", "N", "S", "S", "_", "1", "P", "P", "S">>
SMA1 == <<"S", "M", "A", "1">>

NoPins == EmptyMap

Pin(frequency) ==
    [connector |-> <<>>, frequency |-> frequency, syncTechnologyConfigName |-> "",
     referenceSync |-> <<>>]

Subsystem(name, clockID, hardwarePlugin, phaseInputs) ==
    [name |-> name, hardwarePlugin |-> hardwarePlugin,
     dpll |-> [clockID |-> clockID, phaseInputs |-> phaseInputs, phaseOutputs |-> NoPins,
               frequencyInputs |-> NoPins, frequencyOutputs |-> NoPins]]

PinState(priority, state) == <<[priority |-> priority, state |-> state]>>

DesiredState(clockID, boardLabel, eec, pps) ==
    [clockID |-> clockID, boardLabel |-> boardLabel, eec |-> eec, pps |-> pps]

(* A decoded condition: yaml.v3 makes a slice of exactly the length of the list. *)
Condition(name, sources, desiredStates) ==
    [name |-> name, sources |-> sources, desiredStates |-> desiredStates,
     dsCap |-> Len(desiredStates)]

E810 ==
    [pluginInfo |-> [name |-> "e810"],
     specificDefaults |-> (GNSS_1PPS :> [eec |-> PinState(<<0>>, ""), pps |-> PinState(<<0>>, "")])]

GNRD ==
    [pluginInfo |-> [name |-> "gnr-d"],
     specificDefaults |->
        (GNSS_1PPS :> [eec |-> <<>>, pps |-> PinState(<<>>, "connected")])
        @@ (SMA1 :> [eec |-> PinState(<<3>>, ""), pps |-> <<>>])]

Unnamed == [pluginInfo |-> [name |-> ""], specificDefaults |-> EmptyMap]

File(ext, isDir, content) == [ext |-> ext, isDir |-> isDir, content |-> content]

(* What the disk may hold under the directory's name: no such directory, a
   directory of plugins, a directory with a plugin that has no name. *)
Directories ==
    ("absent" :> <<>>)
    @@ ("plugins" :>
          <<[readable |-> TRUE,
             files |-> <<File(".yaml", FALSE, <<E810>>), File(".md", FALSE, <<>>),
                         File(".yml", FALSE, <<GNRD>>), File("", TRUE, <<>>)>>]>>)
    @@ ("unnamed plugin" :>
          <<[readable |-> TRUE,
             files |-> <<File(".yaml", FALSE, <<E810>>),
                         File(".yaml", FALSE, <<Unnamed>>)>>]>>)

SubsystemMenu ==
    { Subsystem("My System", Clock112233, "e810", GNSS_1PPS :> Pin(<<1>>)),
      Subsystem("Follower", Clock112233, "gnr-d", NoPins),
      Subsystem("Other", Clock42, "timestone", NoPins) }

UserStateMenu ==
    << DesiredState(Clock112233, GNSS_1PPS, PinState(<<5>>, ""), <<>>),
       DesiredState(Clock112233, SMA1, <<>>, PinState(<<>>, "disconnected")),
       DesiredState(AliasGM, GNSS_1PPS, <<>>, <<>>) >>

DefaultSource == [sourceName |-> DefaultSourceName, conditionType |-> "default"]

(* Default conditions carry any list of user states; the conditions that are
   not default carry one state, which merge has to leave alone. *)
OtherConditions ==
    { Condition("Locked", <<[sourceName |-> "PTP", conditionType |-> "locked"]>>,
                <<DesiredState(Clock112233, GNSS_1PPS, PinState(<<5>>, ""), <<>>)>>),
      Condition("Lost", <<[sourceName |-> "GNSS", conditionType |-> "lost"]>>, <<>>),
      Condition("No sources", <<>>,
                <<DesiredState(Clock112233, GNSS_1PPS, <<>>, <<>>)>>) }

DefaultConditions ==
    { Condition("Default Configuration", <<DefaultSource>>, desiredStates) :
          desiredStates \in SubSeqsUpTo(UserStateMenu, MaxUserStates) }

RECURSIVE SumLen(_, _)
SumLen(conditions, i) ==
    IF i > Len(conditions) THEN 0
    ELSE (IF IsDefaultCondition(conditions[i]) THEN Len(conditions[i].desiredStates) ELSE 0)
         + SumLen(conditions, i + 1)

Behaviors ==
    { <<>> } \cup
    { <<[sources |-> <<[name |-> "PTP", clockID |-> AliasGM, sourceType |-> "gnss",
                       boardLabel |-> GNSS_1PPS, ptpTimeReceivers |-> <<>>]>>,
         conditions |-> conditions]>> :
          conditions \in {c \in DistinctSeqsUpTo(DefaultConditions \cup OtherConditions,
                                                    MaxConditions) :
                             SumLen(c, 1) <= MaxUserStates} }

Definitions ==
    <<[eSyncDefinitions |-> <<>>, refSyncDefinitions |-> <<>>,
       clockIdentifiers |-> <<[alias |-> AliasGM, clockID |-> Clock112233]>>]>>

NoLoop == [ci |-> 0, si |-> 0, pending |-> {}]

----------------------------------------------------------------------------
(* The pipeline of main, and further calls of MergeUserConfigWithDefaults *)

Init ==
    /\ pc = "resolve"
    /\ \E structure \in DistinctSeqsUpTo(SubsystemMenu, MaxSubsystems) \ {<<>>},
          behavior \in Behaviors :
          cc = [commonDefinitions |-> Definitions, structure |-> structure,
                behavior |-> behavior]
    /\ pluginsDir \in DOMAIN Directories
    /\ pm = <<>>
    /\ loop = NoLoop
    /\ existingStates = EmptyMap
    /\ stale = <<>>
    /\ hist = <<>>
    /\ err = NoErr
    /\ cc0 = <<>>
    /\ arg = <<>>
    /\ ret = <<>>

(* main, lines 45-49 *)
Resolve ==
    /\ pc = "resolve"
    /\ LET r == ResolveClockAliases(cc) IN
        /\ cc' = r.cc
        /\ err' = r.err
        /\ pc' = IF r.err # NoErr THEN "exit1" ELSE "load"
    /\ cc0' = cc
    /\ UNCHANGED <<pluginsDir, pm, loop, existingStates, stale, hist, arg, ret>>

LoadFailureExits ==
    /\ pc = "load"
    /\ LET r == NewPluginManager(Directories[pluginsDir]) IN
        /\ pm' = r.pm
        /\ err' = r.err
        /\ pc' = IF r.err # NoErr THEN "exit1" ELSE "merge"
    /\ hist' = <<cc>>
    /\ UNCHANGED <<cc, cc0, pluginsDir, loop, existingStates, stale, arg, ret>>

(* main, lines 51-56: a registry that fails to load is only a warning *)
Load ==
    /\ pc = "load"
    /\ LET r == NewPluginManager(Directories[pluginsDir]) IN
        /\ pm' = r.pm
        /\ err' = r.err
        /\ pc' = IF r.err # NoErr THEN "validate" ELSE "merge"
    /\ hist' = <<cc>>
    /\ UNCHANGED <<cc, cc0, pluginsDir, loop, existingStates, stale, arg, ret>>

(* ApplyPluginDefaults moves on, from (ci, si) of the document doc, to the next
   range loop or to the end of MergeUserConfigWithDefaults.  es and old are
   the map and the arrays of the call for condition keepCi. *)
Advance(doc, ci, si, keepCi, es, old) ==
    LET pos == Seek(doc, pm[1], ci, si) IN
    /\ cc' = doc
    /\ err' = NoErr
    /\ IF pos.ci > Len(doc.behavior[1].conditions)
       THEN /\ pc' = "validate"
            /\ loop' = NoLoop
            /\ existingStates' = EmptyMap
            /\ stale' = <<>>
            /\ hist' = Append(hist, doc)
       ELSE /\ pc' = "apply"
            /\ loop' = [ci |-> pos.ci, si |-> pos.si,
                        pending |-> DOMAIN GetPlugin(pm[1],
                                        doc.structure[pos.si].hardwarePlugin)[1].specificDefaults]
            /\ existingStates' =
                   IF pos.ci = keepCi THEN es
                   ELSE BuildExistingStates(doc.behavior[1].conditions[pos.ci].desiredStates)
            /\ stale' = IF pos.ci = keepCi THEN old ELSE <<>>
            /\ hist' = hist

(* MergeBegin that makes a behavior section for a document without one. *)
MergeBeginCreatesBehavior ==
    /\ pc = "merge"
    /\ Advance(EnsureDefaultCondition(
                  IF cc.behavior = <<>>
                  THEN [cc EXCEPT !.behavior = <<[sources |-> <<>>, conditions |-> <<>>]>>]
                  ELSE cc), 1, 1, 0, EmptyMap, <<>>)
    /\ UNCHANGED <<cc0, pluginsDir, pm, arg, ret>>

(* MergeUserConfigWithDefaults up to the first range loop over a plugin's
   SpecificDefaults *)
MergeBegin ==
    /\ pc = "merge"
    /\ IF cc.behavior = <<>>
       THEN /\ pc' = "validate"
            /\ err' = NoErr
            /\ hist' = Append(hist, cc)
            /\ UNCHANGED <<cc, loop, existingStates, stale>>
       ELSE Advance(EnsureDefaultCondition(cc), 1, 1, 0, EmptyMap, <<>>)
    /\ UNCHANGED <<cc0, pluginsDir, pm, arg, ret>>

(* One iteration of the range loop of applySubsystemDefaults, in any map
   order, and what follows it up to the next iteration *)
ApplyStep ==
    /\ pc = "apply"
    /\ \E boardLabel \in loop.pending :
        LET condition == cc.behavior[1].conditions[loop.ci]
            subsystem == cc.structure[loop.si]
            plugin == GetPlugin(pm[1], subsystem.hardwarePlugin)[1]
            m == applySubsystemDefaultsStep(
                     [desiredStates |-> condition.desiredStates, cap |-> condition.dsCap,
                      existing |-> existingStates, old |-> stale],
                     subsystem.dpll.clockID, boardLabel, plugin.specificDefaults[boardLabel])
            doc == [cc EXCEPT !.behavior[1].conditions[loop.ci].desiredStates = m.desiredStates,
                              !.behavior[1].conditions[loop.ci].dsCap = m.cap]
            rest == loop.pending \ {boardLabel}
        IN  IF rest # {}
            THEN /\ cc' = doc
                 /\ loop' = [loop EXCEPT !.pending = rest]
                 /\ existingStates' = m.existing
                 /\ stale' = m.old
                 /\ UNCHANGED <<pc, hist, err>>
            ELSE Advance(doc, loop.ci, loop.si + 1, loop.ci, m.existing, m.old)
    /\ UNCHANGED <<cc0, pluginsDir, pm, arg, ret>>

(* main, lines 80-88 *)
Validate ==
    /\ pc = "validate"
    /\ \E e \in ValidateErrs(cc) :
        /\ err' = e
        /\ pc' = IF e # NoErr THEN "exit1" ELSE "done"
    /\ UNCHANGED <<cc, cc0, pluginsDir, pm, loop, existingStates, stale, hist, arg, ret>>

(* A caller runs MergeUserConfigWithDefaults again on the merged document *)
MergeAgain ==
    /\ pc \in {"done", "exit1"}
    /\ pm # <<>>
    /\ Len(hist) >= 2
    /\ Len(hist) - 1 < MaxRuns
    /\ pc' = "merge"
    /\ UNCHANGED <<cc, cc0, pluginsDir, pm, loop, existingStates, stale, hist, err, arg, ret>>

Next == Resolve \/ Load \/ MergeBegin \/ ApplyStep \/ Validate \/ MergeAgain

Spec == Init /\ [][Next]_vars

----------------------------------------------------------------------------
(* Properties of the merge engine.  hist[1] is the document merge was first
   called on, hist[n + 1] the document after the n-th call returned. *)

Conditions(doc) == IF doc.behavior = <<>> THEN <<>> ELSE doc.behavior[1].conditions

HasDefaultCondition(doc) ==
    \E i \in DOMAIN Conditions(doc) : IsDefaultCondition(Conditions(doc)[i])

KeyOf(state) == MergeKey(state.clockID, state.boardLabel)

(* The PPS defaults that the registry's plugins declare for a merge key. *)
PPSDefaults(doc, manager, clockID, boardLabel) ==
    { manager.plugins[doc.structure[si].hardwarePlugin].specificDefaults[boardLabel].pps :
        si \in { sj \in DOMAIN doc.structure :
                    /\ doc.structure[sj].dpll.clockID = clockID
                    /\ doc.structure[sj].hardwarePlugin \in DOMAIN manager.plugins
                    /\ boardLabel \in DOMAIN
                          manager.plugins[doc.structure[sj].hardwarePlugin].specificDefaults
                    /\ manager.plugins[doc.structure[sj].hardwarePlugin]
                          .specificDefaults[boardLabel].pps # <<>> } }

(* C1: a second run of MergeUserConfigWithDefaults leaves the desired-state
   list of every default condition exactly as the first run produced it. *)
C1_MergeIdempotent ==
    Len(hist) >= 3 =>
        \A ci \in DOMAIN Conditions(hist[2]) :
            IsDefaultCondition(Conditions(hist[2])[ci]) =>
                Conditions(hist[3])[ci].desiredStates = Conditions(hist[2])[ci].desiredStates

(* C2: a user desired state that sets EEC and omits PPS, at a key for which
   the subsystem's plugin declares a PPS default, has after the merge the
   user's EEC and the plugin's PPS, whatever the order of the board labels. *)
C2_OverlayPrecedence ==
    Len(hist) >= 2 =>
        \A ci \in DOMAIN Conditions(hist[1]) :
            LET before == Conditions(hist[1])[ci].desiredStates
                after == Conditions(hist[2])[ci].desiredStates
            IN  IsDefaultCondition(Conditions(hist[1])[ci]) =>
                    \A di \in DOMAIN before :
                        LET defaults == PPSDefaults(hist[1], pm[1], before[di].clockID,
                                                    before[di].boardLabel)
                        IN  ( /\ before[di].eec # <<>>
                              /\ before[di].pps = <<>>
                              /\ defaults # {}
                              /\ \A dj \in DOMAIN before :
                                     KeyOf(before[dj]) = KeyOf(before[di]) => dj = di )
                            => /\ after[di].eec = before[di].eec
                               /\ after[di].pps \in defaults

(* C3: a document with a behavior section and no default condition gains one
   condition, at index 1, named "Default Configuration (Auto-generated)",
   with the single source-state {"Default on profile (re)load", "default"};
   the original conditions follow in their order. *)
C3_DefaultConditionSynthesized ==
    (Len(hist) >= 2 /\ hist[1].behavior # <<>> /\ ~HasDefaultCondition(hist[1])) =>
        LET before == Conditions(hist[1])
            after == Conditions(hist[2])
        IN  /\ Len(after) = Len(before) + 1
            /\ after[1].name = "Default Configuration (Auto-generated)"
            /\ after[1].sources = <<[sourceName |-> "Default on profile (re)load",
                                     conditionType |-> "default"]>>
            /\ \A i \in DOMAIN before : after[i + 1] = before[i]

C3_Witness ==
    /\ Len(hist) >= 2
    /\ hist[1].behavior # <<>>
    /\ ~HasDefaultCondition(hist[1])
    /\ Len(Conditions(hist[1])) = 2
    /\ \E i \in DOMAIN Conditions(hist[1]) : Conditions(hist[1])[i].sources = <<>>
    /\ Len(Conditions(hist[2])) = 3
    /\ Len(Conditions(hist[2])[1].desiredStates) = 2

Preserved(before, after) ==
    /\ after.clockID = before.clockID
    /\ after.boardLabel = before.boardLabel
    /\ before.eec # <<>> => after.eec = before.eec
    /\ before.pps # <<>> => after.pps = before.pps

(* C4: after any run of merge the desired-state list of a default condition
   starts with the user's entries in their order, each with its clockID,
   boardLabel and every EEC or PPS the user set unchanged. *)
C4_UserStatesPreserved ==
    \A n \in 2..Len(hist) :
        \A ci \in DOMAIN Conditions(hist[1]) :
            LET before == Conditions(hist[1])[ci].desiredStates
                after == Conditions(hist[n])[ci].desiredStates
            IN  IsDefaultCondition(Conditions(hist[1])[ci]) =>
                    /\ Len(after) >= Len(before)
                    /\ \A di \in DOMAIN before : Preserved(before[di], after[di])

C4_Witness ==
    /\ Len(hist) >= 2
    /\ \E ci \in DOMAIN Conditions(hist[1]) :
          LET before == Conditions(hist[1])[ci].desiredStates
              after == Conditions(hist[2])[ci].desiredStates
          IN  /\ IsDefaultCondition(Conditions(hist[1])[ci])
              /\ Len(after) > Len(before)
              /\ \E di \in DOMAIN before :
                    /\ before[di].eec = <<>> /\ after[di].eec # <<>>
                    /\ before[di].pps # <<>> /\ before[di].pps[1].priority = <<>>
    /\ \E ci \in DOMAIN Conditions(hist[1]) :
          LET before == Conditions(hist[1])[ci].desiredStates
              after == Conditions(hist[2])[ci].desiredStates
          IN  /\ IsDefaultCondition(Conditions(hist[1])[ci])
              /\ \E di \in DOMAIN before :
                    /\ before[di].eec # <<>> /\ before[di].pps = <<>>
                    /\ after[di].pps # <<>>

ScenarioSubsystem ==
    [name |-> "My System", hardwarePlugin |-> "e810",
     dpll |-> [clockID |-> <<"0", "x", "1", "1", "2", "2", "3", "3">>,
               phaseInputs |-> (GNSS_1PPS :> Pin(<<1>>)), phaseOutputs |-> NoPins,
               frequencyInputs |-> NoPins, frequencyOutputs |-> NoPins]]

ScenarioEntry ==
    [clockID |-> <<"0", "x", "1", "1", "2", "2", "3", "3">>, boardLabel |-> GNSS_1PPS,
     eec |-> <<[priority |-> <<0>>, state |-> ""]>>,
     pps |-> <<[priority |-> <<0>>, state |-> ""]>>]

(* The end-to-end scenario: one subsystem, no conditions written by the
   user, and a registry whose e810 declares defaults for GNSS_1PPS only. *)
Scenario ==
    /\ Len(hist) = 2
    /\ hist[1].structure = <<ScenarioSubsystem>>
    /\ Conditions(hist[1]) = <<>>
    /\ "e810" \in DOMAIN pm[1].plugins
    /\ pm[1].plugins["e810"].specificDefaults =
          (GNSS_1PPS :> [eec |-> <<[priority |-> <<0>>, state |-> ""]>>,
                         pps |-> <<[priority |-> <<0>>, state |-> ""]>>])

(* C5: in the end-to-end scenario the pipeline ends with validation passed
   and a default condition whose desired-state list is exactly the one entry
   {0x112233, GNSS_1PPS, eec priority 0, pps priority 0}. *)
C5_EndToEnd ==
    (pc \in {"done", "exit1"} /\ Scenario) =>
        /\ pc = "done"
        /\ \E ci \in DOMAIN Conditions(cc) :
              /\ IsDefaultCondition(Conditions(cc)[ci])
              /\ Conditions(cc)[ci].desiredStates = <<ScenarioEntry>>

(* The scenario with a behavior section in the document. *)
C5_WithBehavior ==
    (pc \in {"done", "exit1"} /\ Scenario /\ hist[1].behavior # <<>>) =>
        /\ pc = "done"
        /\ Len(Conditions(cc)) = 1
        /\ IsDefaultCondition(Conditions(cc)[1])
        /\ Conditions(cc)[1].desiredStates = <<ScenarioEntry>>

----------------------------------------------------------------------------
(* The functions of the alias resolver, each called once on an input *)

MaxStrLen == 3
MaxIdents == 2

Alphabet == {"0", "1", "x", "X", "a", "F", "g", "-", "."}

Strings == SeqsUpTo(Alphabet, MaxStrLen)

(* Alias tables as BuildClockAliasMap can return them: the keys are not empty
   and hold only letters, digits, dashes and underscores, the targets have
   the clock-ID format. *)
TableKeys == {<<"g">>, <<"1">>, <<"0", "x", "1">>}
TableTargets == {<<"0", "x", "a">>, <<"1", "1">>}
Tables == UNION {[D -> TableTargets] : D \in SUBSET TableKeys}

IdentMenu ==
    { [alias |-> alias, clockID |-> clockID] :
          alias \in {<<>>, <<"g">>, <<"1">>, <<"g", ".">>, <<"-">>},
          clockID \in {<<"0", "x", "a">>, <<"1", "1">>, <<"0", "x">>, <<"g">>} }

IdentDocuments ==
    { [commonDefinitions |-> <<>>] } \cup
    { [commonDefinitions |->
          <<[eSyncDefinitions |-> <<>>, refSyncDefinitions |-> <<>>,
             clockIdentifiers |-> idents]>>] :
          idents \in SeqsUpTo(IdentMenu, MaxIdents) }

(* One call of one function: arg.fn names it, the other fields are its
   arguments. *)
InitFn ==
    /\ pc = "call"
    /\ \/ \E value \in Strings : arg = [fn |-> "ValidateClockID", value |-> value]
       \/ \E value \in Strings : arg = [fn |-> "ValidateAlphanumDash", value |-> value]
       \/ \E value \in Strings, aliasToClock \in Tables :
             arg = [fn |-> "resolveClockIDValue", value |-> value,
                    aliasToClock |-> aliasToClock]
       \/ \E doc \in IdentDocuments : arg = [fn |-> "BuildClockAliasMap", doc |-> doc]
    /\ ret = <<>>
    /\ cc = <<>>
    /\ cc0 = <<>>
    /\ pluginsDir = "absent"
    /\ pm = <<>>
    /\ loop = NoLoop
    /\ existingStates = EmptyMap
    /\ stale = <<>>
    /\ hist = <<>>
    /\ err = NoErr

Return(result) ==
    /\ ret' = result
    /\ pc' = "returned"
    /\ UNCHANGED <<cc, cc0, pluginsDir, pm, loop, existingStates, stale, hist, err, arg>>

CallValidateClockID ==
    /\ pc = "call" /\ arg.fn = "ValidateClockID"
    /\ Return([err |-> ValidateClockID(arg.value)])

CallValidateAlphanumDash ==
    /\ pc = "call" /\ arg.fn = "ValidateAlphanumDash"
    /\ Return([err |-> ValidateAlphanumDash(arg.value)])

CallResolveClockIDValue ==
    /\ pc = "call" /\ arg.fn = "resolveClockIDValue"
    /\ Return(resolveClockIDValue(arg.value, arg.aliasToClock))

CallBuildClockAliasMap ==
    /\ pc = "call" /\ arg.fn = "BuildClockAliasMap"
    /\ Return(BuildClockAliasMap(arg.doc))

NextFn ==
    \/ CallValidateClockID
    \/ CallValidateAlphanumDash
    \/ CallResolveClockIDValue
    \/ CallBuildClockAliasMap

SpecFn == InitFn /\ [][NextFn]_vars

----------------------------------------------------------------------------
(* Properties of the alias resolver's functions *)

HexDigit == Digit \cup LowerAF \cup UpperAF

IsHexID(s) ==
    /\ Len(s) >= 3
    /\ s[1] = "0"
    /\ s[2] \in {"x", "X"}
    /\ \A i \in 3..Len(s) : s[i] \in HexDigit

IsDecimal(s) == Len(s) >= 1 /\ \A i \in 1..Len(s) : s[i] \in Digit

HasClockIDFormat(s) == IsHexID(s) \/ IsDecimal(s)

IsAliasChar(c) == c \in Lower \cup Upper \cup Digit \cup {"-", "_"}

Returned(fn) == pc = "returned" /\ arg.fn = fn

(* C6: ValidateClockID returns no error exactly for "0x" or "0X" followed by
   one or more hex digits and for one or more decimal digits; every other
   string, the empty string, "0x" alone and strings with other letters among
   them, gets an error. *)
C6_ClockIDFormat ==
    Returned("ValidateClockID") =>
        /\ (ret.err = NoErr) <=> HasClockIDFormat(arg.value)
        /\ arg.value \in {<<>>, <<"0", "x">>, <<"0", "x", "g">>, <<"g">>} => ret.err # NoErr

C6_Witness ==
    /\ Returned("ValidateClockID")
    /\ arg.value = <<"0", "X", "F">>
    /\ ret.err = NoErr

(* C7: a value that has the clock-ID format is returned unchanged and without
   error by resolveClockIDValue, whatever the alias table holds, a key equal
   to the value included. *)
C7_AliasesNeverShadow ==
    (Returned("resolveClockIDValue") /\ HasClockIDFormat(arg.value)) =>
        ret = [value |-> arg.value, err |-> NoErr]

C7_Witness ==
    /\ Returned("resolveClockIDValue")
    /\ HasClockIDFormat(arg.value)
    /\ arg.value \in DOMAIN arg.aliasToClock
    /\ arg.aliasToClock[arg.value] # arg.value
    /\ ret.value = arg.value

(* C8 as stated: every value that neither has the clock-ID format nor is a
   key of the table gets an error, and a key of the table that does not have
   the clock-ID format gets its mapped clock ID. *)
C8_Original ==
    Returned("resolveClockIDValue") =>
        /\ (~HasClockIDFormat(arg.value) /\ arg.value \notin DOMAIN arg.aliasToClock)
              => ret.err # NoErr
        /\ (~HasClockIDFormat(arg.value) /\ arg.value \in DOMAIN arg.aliasToClock)
              => ret = [value |-> arg.aliasToClock[arg.value], err |-> NoErr]

(* C8: every value that is not empty and neither has the clock-ID format nor
   is a key of the table gets an error; the empty value is returned as it is,
   without error; a key of the table that does not have the clock-ID format
   gets its mapped clock ID. *)
C8_ResolveFailsOnUnresolvable ==
    Returned("resolveClockIDValue") =>
        /\ (arg.value # <<>> /\ ~HasClockIDFormat(arg.value)
               /\ arg.value \notin DOMAIN arg.aliasToClock)
              => ret.err # NoErr
        /\ arg.value = <<>> => ret = [value |-> <<>>, err |-> NoErr]
        /\ (~HasClockIDFormat(arg.value) /\ arg.value \in DOMAIN arg.aliasToClock)
              => ret = [value |-> arg.aliasToClock[arg.value], err |-> NoErr]

C8_Witness ==
    /\ Returned("resolveClockIDValue")
    /\ arg.value = <<"g", "-">>
    /\ <<"g">> \in DOMAIN arg.aliasToClock
    /\ ret.err # NoErr

(* C9: BuildClockAliasMap fails when an entry has an empty alias, an alias
   with a character that is no letter, digit, dash or underscore, a clock ID
   without the clock-ID format, or the alias of an earlier entry; otherwise
   the map's keys are exactly the declared aliases, each mapped to its
   declared clock ID, and the map is empty when commonDefinitions is absent. *)
C9_BuildClockAliasMap ==
    Returned("BuildClockAliasMap") =>
        IF arg.doc.commonDefinitions = <<>>
        THEN ret = [aliasToClock |-> EmptyMap, err |-> NoErr]
        ELSE LET idents == arg.doc.commonDefinitions[1].clockIdentifiers
                 Bad(i) ==
                    \/ idents[i].alias = <<>>
                    \/ \E k \in DOMAIN idents[i].alias : ~IsAliasChar(idents[i].alias[k])
                    \/ ~HasClockIDFormat(idents[i].clockID)
                    \/ \E j \in 1..(i - 1) : idents[j].alias = idents[i].alias
             IN  IF \E i \in DOMAIN idents : Bad(i)
                 THEN ret.err # NoErr
                 ELSE /\ ret.err = NoErr
                      /\ DOMAIN ret.aliasToClock = {idents[i].alias : i \in DOMAIN idents}
                      /\ \A i \in DOMAIN idents :
                            ret.aliasToClock[idents[i].alias] = idents[i].clockID

C9_Witness ==
    /\ Returned("BuildClockAliasMap")
    /\ arg.doc.commonDefinitions # <<>>
    /\ LET idents == arg.doc.commonDefinitions[1].clockIdentifiers IN
        /\ Len(idents) = 2
        /\ idents[1].alias = <<"g">> /\ idents[2].alias = <<"g">>
        /\ idents[1].clockID = <<"1", "1">> /\ idents[2].clockID = <<"0", "x", "a">>
    /\ ret.err # NoErr

----------------------------------------------------------------------------
(* ResolveClockAliases called on a document, and again on its result *)

Eleven == <<"1", "1">>

(* Aliases that have and that do not have the clock-ID format, targets that
   are clock IDs and one that is not. *)
ResolveIdentMenu ==
    { [alias |-> AliasGM, clockID |-> Eleven],
      [alias |-> Eleven, clockID |-> <<"0", "x", "a">>],
      [alias |-> AliasGM, clockID |-> <<"0", "x", "a">>],
      [alias |-> AliasGM, clockID |-> <<"z", "z">>] }

FieldValues == {<<>>, AliasGM, Eleven, <<"z", "z">>}

ResolveStructures ==
    { [i \in 1..Len(ids) |-> Subsystem("My System", ids[i], "", NoPins)] :
          ids \in SeqsUpTo(FieldValues, MaxSubsystems) \ {<<>>} }

ResolveBehaviors ==
    { <<>> } \cup
    { <<[sources |-> <<[name |-> "PTP", clockID |-> sourceID, sourceType |-> "gnss",
                       boardLabel |-> GNSS_1PPS, ptpTimeReceivers |-> <<>>]>>,
         conditions |-> <<Condition("Default Configuration", <<DefaultSource>>,
                                    <<DesiredState(stateID, GNSS_1PPS, <<>>, <<>>)>>)>>]>> :
          sourceID \in FieldValues, stateID \in FieldValues }

ResolveDefinitions ==
    { <<>> } \cup
    { <<[eSyncDefinitions |-> <<>>, refSyncDefinitions |-> <<>>,
         clockIdentifiers |-> idents]>> :
          idents \in DistinctSeqsUpTo(ResolveIdentMenu, MaxIdents) }

(* Two conditions of two desired states each, for the order of the fields. *)
OrderBehavior(sourceID, ids) ==
    <<[sources |-> <<[name |-> "PTP", clockID |-> sourceID, sourceType |-> "gnss",
                      boardLabel |-> GNSS_1PPS, ptpTimeReceivers |-> <<>>]>>,
       conditions |->
          <<Condition("Default Configuration", <<DefaultSource>>,
                      <<DesiredState(ids[1], GNSS_1PPS, <<>>, <<>>),
                        DesiredState(ids[2], SMA1, <<>>, <<>>)>>),
            Condition("Locked", <<[sourceName |-> "PTP", conditionType |-> "locked"]>>,
                      <<DesiredState(ids[3], GNSS_1PPS, <<>>, <<>>),
                        DesiredState(ids[4], SMA1, <<>>, <<>>)>>)>>]>>

InitResolve ==
    /\ pc = "resolve"
    /\ \/ \E definitions \in ResolveDefinitions, structure \in ResolveStructures,
             behavior \in ResolveBehaviors :
             cc = [commonDefinitions |-> definitions, structure |-> structure,
                   behavior |-> behavior]
       \/ \E sourceID \in {AliasGM, <<"z", "z">>},
             ids \in [1..4 -> {AliasGM, <<"z", "z">>}] :
             cc = [commonDefinitions |->
                      <<[eSyncDefinitions |-> <<>>, refSyncDefinitions |-> <<>>,
                         clockIdentifiers |-> <<[alias |-> AliasGM, clockID |-> Eleven]>>]>>,
                   structure |-> <<Subsystem("My System", AliasGM, "", NoPins)>>,
                   behavior |-> OrderBehavior(sourceID, ids)]
    /\ pluginsDir = "absent"
    /\ pm = <<>>
    /\ loop = NoLoop
    /\ existingStates = EmptyMap
    /\ stale = <<>>
    /\ hist = <<>>
    /\ err = NoErr
    /\ cc0 = <<>>
    /\ arg = <<>>
    /\ ret = <<>>

(* ResolveClockAliases on the document that the first call left; hist keeps
   that document. *)
ResolveAgain ==
    /\ pc = "load"
    /\ LET r == ResolveClockAliases(cc) IN
        /\ cc' = r.cc
        /\ err' = r.err
    /\ hist' = <<cc>>
    /\ pc' = "resolved again"
    /\ UNCHANGED <<cc0, pluginsDir, pm, loop, existingStates, stale, arg, ret>>

NextResolve == Resolve \/ ResolveAgain

SpecResolve == InitResolve /\ [][NextResolve]_vars

ClockIDFields(doc) ==
    << [si \in DOMAIN doc.structure |-> doc.structure[si].dpll.clockID],
       IF doc.behavior = <<>> THEN <<>>
       ELSE [i \in DOMAIN doc.behavior[1].sources |-> doc.behavior[1].sources[i].clockID],
       [ci \in DOMAIN Conditions(doc) |->
           [di \in DOMAIN Conditions(doc)[ci].desiredStates |->
               Conditions(doc)[ci].desiredStates[di].clockID]] >>

(* C10: when ResolveClockAliases has succeeded on a document, calling it
   again on the result succeeds and changes no clock ID of a DPLL, a source
   or a desired state. *)
C10_ResolveIdempotent ==
    pc = "resolved again" =>
        /\ err = NoErr
        /\ ClockIDFields(cc) = ClockIDFields(hist[1])

C10_Witness ==
    /\ pc = "resolved again"
    /\ cc0.structure[1].dpll.clockID = AliasGM
    /\ hist[1].structure[1].dpll.clockID = Eleven
    /\ \E i \in DOMAIN cc.commonDefinitions[1].clockIdentifiers :
          cc.commonDefinitions[1].clockIdentifiers[i].alias = Eleven
    /\ cc.behavior # <<>>
    /\ cc0.behavior[1].conditions[1].desiredStates[1].clockID = AliasGM
    /\ cc.structure[1].dpll.clockID = Eleven

(* The clock-ID fields of a document, by path, and the order of the paths:
   DPLLs, then sources, then desired states by condition and entry. *)
FieldPaths(doc) ==
    {[field |-> "structure.DPLL.clockId", i |-> si, j |-> 0] : si \in DOMAIN doc.structure}
    \cup (IF doc.behavior = <<>> THEN {}
          ELSE {[field |-> "behavior.sources.clockId", i |-> i, j |-> 0] :
                   i \in DOMAIN doc.behavior[1].sources}
               \cup UNION {{[field |-> "behavior.conditions.desiredStates.clockId",
                             i |-> ci, j |-> di] :
                               di \in DOMAIN doc.behavior[1].conditions[ci].desiredStates} :
                           ci \in DOMAIN doc.behavior[1].conditions})

FieldRank(p) ==
    CASE p.field = "structure.DPLL.clockId" -> 1
      [] p.field = "behavior.sources.clockId" -> 2
      [] OTHER -> 3

PathBefore(p, q) ==
    \/ FieldRank(p) < FieldRank(q)
    \/ FieldRank(p) = FieldRank(q) /\ p.i < q.i
    \/ FieldRank(p) = FieldRank(q) /\ p.i = q.i /\ p.j < q.j

ValueAt(doc, p) ==
    CASE FieldRank(p) = 1 -> doc.structure[p.i].dpll.clockID
      [] FieldRank(p) = 2 -> doc.behavior[1].sources[p.i].clockID
      [] OTHER -> doc.behavior[1].conditions[p.i].desiredStates[p.j].clockID

AliasTable(doc) ==
    IF doc.commonDefinitions = <<>> THEN EmptyMap
    ELSE LET idents == doc.commonDefinitions[1].clockIdentifiers IN
         [a \in {idents[i].alias : i \in DOMAIN idents} |->
             idents[CHOOSE i \in DOMAIN idents : idents[i].alias = a].clockID]

Unresolvable(value, table) ==
    value # <<>> /\ ~HasClockIDFormat(value) /\ value \notin DOMAIN table

ResolvedValue(value, table) ==
    IF value = <<>> \/ HasClockIDFormat(value) THEN value ELSE table[value]

(* C21: ResolveClockAliases takes the fields in the order DPLL clock IDs,
   source clock IDs, desired-state clock IDs by condition and entry; it stops
   at the first field that cannot be resolved, returns an error with the path
   of that field, has resolved every field before it and no field from it
   on; an error of the alias table is returned with no field touched. *)
C21_ResolveOrderShortCircuit ==
    pc \in {"load", "exit1"} =>
        LET r == ResolveClockAliases(cc0)
            built == BuildClockAliasMap(cc0)
            table == AliasTable(cc0)
            bad == {p \in FieldPaths(cc0) : Unresolvable(ValueAt(cc0, p), table)}
        IN  /\ r.cc = cc /\ r.err = err
            /\ IF built.err # NoErr
               THEN err = built.err /\ cc = cc0 /\ r.at = NoPath
               ELSE IF bad = {}
               THEN /\ err = NoErr
                    /\ \A p \in FieldPaths(cc0) :
                          ValueAt(cc, p) = ResolvedValue(ValueAt(cc0, p), table)
               ELSE LET first == CHOOSE p \in bad : \A q \in bad : q = p \/ PathBefore(p, q)
                    IN  /\ err # NoErr
                        /\ r.at = first
                        /\ \A p \in FieldPaths(cc0) :
                              ValueAt(cc, p) = IF PathBefore(p, first)
                                               THEN ResolvedValue(ValueAt(cc0, p), table)
                                               ELSE ValueAt(cc0, p)

C21_Witness ==
    /\ pc = "exit1"
    /\ Len(Conditions(cc0)) = 2
    /\ cc0.behavior[1].sources[1].clockID = AliasGM
    /\ cc.behavior[1].sources[1].clockID = Eleven
    /\ Conditions(cc0)[1].desiredStates[1].clockID = AliasGM
    /\ Conditions(cc)[1].desiredStates[1].clockID = Eleven
    /\ Conditions(cc0)[1].desiredStates[2].clockID = <<"z", "z">>
    /\ Conditions(cc0)[2].desiredStates[1].clockID = AliasGM
    /\ Conditions(cc)[2].desiredStates[1].clockID = AliasGM
    /\ ResolveClockAliases(cc0).at
          = [field |-> "behavior.conditions.desiredStates.clockId", i |-> 1, j |-> 2]

(* C22: when ResolveClockAliases returns an error, the document the caller
   holds has the clock-ID fields it had before the call. *)
C22_NoPartialMutation ==
    pc = "exit1" => ClockIDFields(cc) = ClockIDFields(cc0)

(* When the alias table cannot be built, no field has changed. *)
C22_TableErrorLeavesDocument ==
    (pc = "exit1" /\ BuildClockAliasMap(cc0).err # NoErr) => cc = cc0

----------------------------------------------------------------------------
(* Validate called on a decoded document *)

BadClock == <<"z", "z">>
BadConnector == <<"S", ".", "A">>

PinConfigOf(connector, frequency, syncTechnologyConfigName, referenceSync) ==
    [connector |-> connector, frequency |-> frequency,
     syncTechnologyConfigName |-> syncTechnologyConfigName, referenceSync |-> referenceSync]

(* Every combination of a good or bad connector, a frequency, a defined or
   undefined sync technology name and a referenceSync. *)
PinMenu ==
    { PinConfigOf(connector, frequency, name, referenceSync) :
          connector \in {<<>>, BadConnector}, frequency \in {<<>>, <<1>>},
          name \in {"", "esync1", "missing"}, referenceSync \in {<<>>, GNSS_1PPS} }

ShadowPinMenu ==
    { Pin(<<1>>), PinConfigOf(<<>>, <<1>>, "esync1", <<>>),
      PinConfigOf(<<>>, <<>>, "", GNSS_1PPS), PinConfigOf(<<>>, <<>>, "", SMA1),
      PinConfigOf(<<>>, <<>>, "missing", <<>>) }

Layout(phaseInputs, phaseOutputs, frequencyInputs, frequencyOutputs) ==
    [phaseInputs |-> phaseInputs, phaseOutputs |-> phaseOutputs,
     frequencyInputs |-> frequencyInputs, frequencyOutputs |-> frequencyOutputs]

(* One pin, of any configuration, in any one of the four mappings. *)
SinglePinLayouts ==
    { Layout(NoPins, NoPins, NoPins, NoPins) } \cup
    UNION { { Layout(SMA1 :> config, NoPins, NoPins, NoPins),
              Layout(NoPins, SMA1 :> config, NoPins, NoPins),
              Layout(NoPins, NoPins, SMA1 :> config, NoPins),
              Layout(NoPins, NoPins, NoPins, SMA1 :> config) } : config \in PinMenu }

(* At most one pin in each mapping, the labels shared or not. *)
ShadowMappings ==
    { NoPins } \cup { label :> config : label \in {GNSS_1PPS, SMA1}, config \in ShadowPinMenu }

ValidateSubsystem(name, clockID, layout) ==
    [name |-> name, hardwarePlugin |-> "", dpll |-> [clockID |-> clockID] @@ layout]

GoodDefinitions ==
    <<[eSyncDefinitions |-> <<[name |-> "esync1"]>>,
       refSyncDefinitions |-> <<[name |-> "ref1"]>>, clockIdentifiers |-> <<>>]>>

ValidateDefinitions ==
    { <<>>, GoodDefinitions,
      <<[eSyncDefinitions |-> <<[name |-> "esync1"], [name |-> ""]>>,
         refSyncDefinitions |-> <<>>, clockIdentifiers |-> <<>>]>>,
      <<[eSyncDefinitions |-> <<[name |-> "esync1"]>>,
         refSyncDefinitions |-> <<[name |-> "ref1"], [name |-> "ref1"]>>,
         clockIdentifiers |-> <<>>]>> }

Source(name, clockID, sourceType, ptpTimeReceivers) ==
    [name |-> name, clockID |-> clockID, sourceType |-> sourceType,
     boardLabel |-> GNSS_1PPS, ptpTimeReceivers |-> ptpTimeReceivers]

ValidateBehaviors ==
    { <<>>,
      <<[sources |-> <<Source("PTP", Clock42, "gnss", <<>>)>>,
         conditions |-> <<Condition("Locked", <<[sourceName |-> "PTP",
                                                 conditionType |-> "locked"]>>, <<>>)>>]>>,
      <<[sources |-> <<Source("PTP", Clock42, "ptpTimeReceiver", <<>>)>>,
         conditions |-> <<Condition("Lost", <<[sourceName |-> "GNSS",
                                               conditionType |-> "lost"]>>, <<>>)>>]>>,
      <<[sources |-> <<Source("PTP", Clock42, "gnss", <<>>),
                       Source("PTP", Clock42, "gnss", <<>>)>>,
         conditions |-> <<>>]>>,
      <<[sources |-> <<>>,
         conditions |-> <<Condition("Default Configuration", <<DefaultSource>>,
                                    <<DesiredState(BadClock, GNSS_1PPS, <<>>, <<>>)>>)>>]>> }

(* Source-states that name a declared source, the sentinel or a source that
   may be declared nowhere. *)
SourceStateMenu ==
    { [sourceName |-> "PTP", conditionType |-> "locked"],
      [sourceName |-> "GNSS", conditionType |-> "lost"],
      DefaultSource }

InitValidate ==
    /\ pc = "validate"
    /\ \/ \E definitions \in ValidateDefinitions, behavior \in ValidateBehaviors,
             structure \in
                 { <<>> } \cup
                 { <<ValidateSubsystem("My System", clockID, layout)>> \o tail :
                       clockID \in {<<>>, Clock112233, BadClock},
                       layout \in SinglePinLayouts,
                       tail \in {<<>>, <<ValidateSubsystem("Follower", BadClock,
                                            Layout(NoPins, NoPins, NoPins, NoPins))>>} } :
             cc = [commonDefinitions |-> definitions, structure |-> structure,
                   behavior |-> behavior]
       \/ \E phaseInputs \in ShadowMappings, phaseOutputs \in ShadowMappings,
             frequencyInputs \in ShadowMappings, frequencyOutputs \in ShadowMappings :
             cc = [commonDefinitions |-> GoodDefinitions,
                   structure |-> <<ValidateSubsystem("My System", Clock112233,
                                       Layout(phaseInputs, phaseOutputs,
                                              frequencyInputs, frequencyOutputs))>>,
                   behavior |-> <<>>]
       \/ \E names \in SeqsUpTo({"PTP", "GNSS"}, 2),
             states \in SeqsUpTo(SeqsUpTo(SourceStateMenu, 2), MaxConditions) :
             cc = [commonDefinitions |-> <<>>,
                   structure |-> <<ValidateSubsystem("My System", Clock112233,
                                       Layout(NoPins, NoPins, NoPins, NoPins))>>,
                   behavior |->
                      <<[sources |-> [i \in DOMAIN names |->
                                         Source(names[i], Clock42, "gnss", <<>>)],
                         conditions |-> [ci \in DOMAIN states |->
                                            Condition("Condition", states[ci], <<>>)]]>>]
    /\ pluginsDir = "absent"
    /\ pm = <<>>
    /\ loop = NoLoop
    /\ existingStates = EmptyMap
    /\ stale = <<>>
    /\ hist = <<>>
    /\ err = NoErr
    /\ cc0 = <<>>
    /\ arg = <<>>
    /\ ret = <<>>

NextValidate == Validate

SpecValidate == InitValidate /\ [][NextValidate]_vars

----------------------------------------------------------------------------
(* Properties of Validate *)

Validated == pc \in {"done", "exit1"}

DefinedNames(doc) ==
    IF doc.commonDefinitions = <<>> THEN {}
    ELSE {doc.commonDefinitions[1].eSyncDefinitions[i].name :
             i \in DOMAIN doc.commonDefinitions[1].eSyncDefinitions}
         \cup {doc.commonDefinitions[1].refSyncDefinitions[i].name :
                  i \in DOMAIN doc.commonDefinitions[1].refSyncDefinitions}

BadNames(defs) ==
    \/ \E i \in DOMAIN defs : defs[i].name = ""
    \/ \E i, j \in DOMAIN defs : i < j /\ defs[i].name = defs[j].name

(* The four checks of one pin config, each on its own. *)
BothSet(config) == config.frequency # <<>> /\ config.syncTechnologyConfigName # ""

ConnectorBad(config) ==
    /\ config.connector # <<>>
    /\ \E k \in DOMAIN config.connector : ~IsAliasChar(config.connector[k])

NameUndefined(config, doc) ==
    /\ config.syncTechnologyConfigName # ""
    /\ config.syncTechnologyConfigName \notin DefinedNames(doc)

ReferenceSyncIllegal(dpll, label, config) ==
    /\ config.referenceSync # <<>>
    /\ \/ label \notin DOMAIN dpll.frequencyInputs
       \/ config.referenceSync \notin DOMAIN dpll.phaseInputs \cup DOMAIN dpll.phaseOutputs

PinViolated(doc, dpll, label) ==
    LET config == AllPinConfigs(dpll)[label] IN
    \/ BothSet(config)
    \/ ConnectorBad(config)
    \/ NameUndefined(config, doc)
    \/ ReferenceSyncIllegal(dpll, label, config)

(* The error of the first of its four checks that the pin config fails. *)
FirstPinError(doc, dpll, label) ==
    LET config == AllPinConfigs(dpll)[label] IN
    IF BothSet(config)
    THEN "invalid pin config: frequency and syncTechnologyConfigName are mutually exclusive"
    ELSE IF ConnectorBad(config) THEN "invalid pin config: invalid connector format"
    ELSE IF NameUndefined(config, doc) THEN "referenced sync technology config not found"
    ELSE IF label \in DOMAIN dpll.frequencyInputs
    THEN "referenceSync not found among phase pins"
    ELSE IF label \in DOMAIN dpll.frequencyOutputs
    THEN "referenceSync is not supported on frequency output pin"
    ELSE "referenceSync specified on non-frequency-input pin"

ClockBad(clockID) == clockID # <<>> /\ ~HasClockIDFormat(clockID)

SourceBad(sources, i) ==
    \/ ~HasClockIDFormat(sources[i].clockID)
    \/ sources[i].sourceType = "ptpTimeReceiver" /\ sources[i].ptpTimeReceivers = <<>>
    \/ \E k \in DOMAIN sources[i].ptpTimeReceivers :
          \/ sources[i].ptpTimeReceivers[k] = <<>>
          \/ \E n \in DOMAIN sources[i].ptpTimeReceivers[k] :
                ~IsAliasChar(sources[i].ptpTimeReceivers[k][n])
    \/ \E j \in 1..(i - 1) : sources[j].name = sources[i].name

ConditionBad(doc, condition) ==
    \/ \E i \in DOMAIN condition.sources :
          /\ condition.sources[i].sourceName # "Default on profile (re)load"
          /\ condition.sources[i].sourceName \notin
                {doc.behavior[1].sources[k].name : k \in DOMAIN doc.behavior[1].sources}
    \/ \E i \in DOMAIN condition.desiredStates : ClockBad(condition.desiredStates[i].clockID)

(* Whether the document fails the checks of group g, taken alone. *)
GroupViolated(doc, g) ==
    CASE g = 1 -> doc.structure = <<>>
      [] g = 2 -> /\ doc.commonDefinitions # <<>>
                  /\ \/ BadNames(doc.commonDefinitions[1].eSyncDefinitions)
                     \/ BadNames(doc.commonDefinitions[1].refSyncDefinitions)
      [] g = 3 -> \E si \in DOMAIN doc.structure :
                     \/ ClockBad(doc.structure[si].dpll.clockID)
                     \/ \E label \in DOMAIN AllPinConfigs(doc.structure[si].dpll) :
                           PinViolated(doc, doc.structure[si].dpll, label)
      [] g = 4 -> /\ doc.behavior # <<>>
                  /\ \E i \in DOMAIN doc.behavior[1].sources :
                        SourceBad(doc.behavior[1].sources, i)
      [] g = 5 -> /\ doc.behavior # <<>>
                  /\ \E ci \in DOMAIN doc.behavior[1].conditions :
                        ConditionBad(doc, doc.behavior[1].conditions[ci])

Groups == 1..5

PinErrors ==
    { "invalid pin config: frequency and syncTechnologyConfigName are mutually exclusive",
      "invalid pin config: invalid connector format",
      "referenced sync technology config not found",
      "referenceSync not found among phase pins",
      "referenceSync is not supported on frequency output pin",
      "referenceSync specified on non-frequency-input pin" }

(* The group of checks an error of Validate comes from. *)
GroupOf(e) ==
    IF e = "structure must contain at least one subsystem" THEN 1
    ELSE IF e \in {"eSync definition name must not be empty",
                   "duplicate eSync definition name",
                   "refSync definition name must not be empty",
                   "duplicate refSync definition name"} THEN 2
    ELSE IF e \in PinErrors \cup {"invalid clock ID in subsystem"} THEN 3
    ELSE IF e \in {"invalid source: invalid clock ID",
                   "invalid source: ptpTimeReceivers must be specified",
                   "invalid source: invalid PTP time receiver format",
                   "duplicate source name"} THEN 4
    ELSE IF e \in {"referenced source not found in condition",
                   "invalid clock ID in desired state"} THEN 5
    ELSE 0

(* C11: Validate returns one error, that of the earliest group of checks the
   document fails, in the order structure, definition names, subsystems,
   sources, conditions, and no error when it fails none; an error of a pin
   config is that of the first check the pin config fails, in the order
   exclusivity, connector format, sync technology name, referenceSync. *)
C11_ValidateFailFast ==
    Validated =>
        /\ (err = NoErr) <=> (pc = "done")
        /\ (err = NoErr) <=> (\A g \in Groups : ~GroupViolated(cc, g))
        /\ err # NoErr =>
              /\ GroupOf(err) \in Groups
              /\ GroupViolated(cc, GroupOf(err))
              /\ \A g \in Groups : g < GroupOf(err) => ~GroupViolated(cc, g)
        /\ err \in PinErrors =>
              \E si \in DOMAIN cc.structure :
                 \E label \in DOMAIN AllPinConfigs(cc.structure[si].dpll) :
                    /\ PinViolated(cc, cc.structure[si].dpll, label)
                    /\ err = FirstPinError(cc, cc.structure[si].dpll, label)

C11_Witness ==
    /\ pc = "exit1"
    /\ GroupViolated(cc, 3) /\ GroupViolated(cc, 4) /\ GroupViolated(cc, 5)
    /\ \E label \in DOMAIN AllPinConfigs(cc.structure[1].dpll) :
          LET config == AllPinConfigs(cc.structure[1].dpll)[label] IN
          /\ BothSet(config) /\ ConnectorBad(config) /\ NameUndefined(config, cc)
          /\ config.referenceSync # <<>>
    /\ err = "invalid pin config: frequency and syncTechnologyConfigName are mutually exclusive"

ReferenceSyncErrors ==
    { "referenceSync not found among phase pins",
      "referenceSync is not supported on frequency output pin",
      "referenceSync specified on non-frequency-input pin" }

(* The frequencyOutputs entries of the document that set referenceSync. *)
OutputsWithReferenceSync(doc) ==
    { <<si, label>> \in (DOMAIN doc.structure) \X {GNSS_1PPS, SMA1} :
          /\ label \in DOMAIN doc.structure[si].dpll.frequencyOutputs
          /\ doc.structure[si].dpll.frequencyOutputs[label].referenceSync # <<>> }

(* Every referenceSync of the document is set on a frequencyInputs entry
   that Validate visits and names a phaseInputs label. *)
ReferenceSyncOnInputsOnly(doc) ==
    \A si \in DOMAIN doc.structure :
       LET dpll == doc.structure[si].dpll IN
       \A label \in DOMAIN AllPinConfigs(dpll) :
          AllPinConfigs(dpll)[label].referenceSync # <<>> =>
             /\ label \in DOMAIN dpll.frequencyInputs
             /\ label \notin DOMAIN dpll.frequencyOutputs
             /\ AllPinConfigs(dpll)[label].referenceSync \in DOMAIN dpll.phaseInputs

(* C12: Validate fails for every document in which an entry of a subsystem's
   frequencyOutputs sets referenceSync, whatever the other three mappings
   hold; and it does not fail on the referenceSync check when the value is set
   on a frequencyInputs entry and names a phaseInputs label. *)
C12_ReferenceSyncRejection ==
    Validated =>
        /\ OutputsWithReferenceSync(cc) # {} => err # NoErr
        /\ ReferenceSyncOnInputsOnly(cc) => err \notin ReferenceSyncErrors

(* The first half of C12 for outputs whose label is no frequencyInputs key. *)
C12_UnsharedLabel ==
    (Validated /\ \E p \in OutputsWithReferenceSync(cc) :
                     p[2] \notin DOMAIN cc.structure[p[1]].dpll.frequencyInputs)
        => err # NoErr

(* The second half of C12. *)
C12_InputsAccepted ==
    (Validated /\ ReferenceSyncOnInputsOnly(cc)) => err \notin ReferenceSyncErrors

Mappings(dpll) ==
    <<dpll.phaseInputs, dpll.phaseOutputs, dpll.frequencyInputs, dpll.frequencyOutputs>>

(* <<si, k, label>>: the entries of the four mappings that set both frequency
   and syncTechnologyConfigName. *)
EntriesWithBothSet(doc) ==
    { p \in (DOMAIN doc.structure) \X (1..4) \X {GNSS_1PPS, SMA1} :
          /\ p[3] \in DOMAIN Mappings(doc.structure[p[1]].dpll)[p[2]]
          /\ BothSet(Mappings(doc.structure[p[1]].dpll)[p[2]][p[3]]) }

ValidUpToPins(doc) ==
    /\ doc.structure # <<>>
    /\ ~GroupViolated(doc, 2)
    /\ \A si \in DOMAIN doc.structure : ~ClockBad(doc.structure[si].dpll.clockID)

(* C13: Validate fails for every document with a structure, valid
   definitions and valid DPLL clock IDs in which a pin config of any of the
   four mappings of a subsystem sets both frequency and
   syncTechnologyConfigName, also when its board label is a key of another of
   the four mappings. *)
C13_MutualExclusivity ==
    (Validated /\ ValidUpToPins(cc) /\ EntriesWithBothSet(cc) # {}) => err # NoErr

(* C13 for an entry whose board label is in no later mapping. *)
C13_Unshadowed ==
    (Validated /\ ValidUpToPins(cc)
       /\ \E p \in EntriesWithBothSet(cc) :
             \A k \in (p[2] + 1)..4 :
                p[3] \notin DOMAIN Mappings(cc.structure[p[1]].dpll)[k])
        => err # NoErr

(* <<si, k, label>>: the entries of the four mappings whose
   syncTechnologyConfigName is not empty and is the name of no eSync and of
   no ref-sync definition. *)
EntriesWithUndeclaredName(doc) ==
    { p \in (DOMAIN doc.structure) \X (1..4) \X {GNSS_1PPS, SMA1} :
          /\ p[3] \in DOMAIN Mappings(doc.structure[p[1]].dpll)[p[2]]
          /\ NameUndefined(Mappings(doc.structure[p[1]].dpll)[p[2]][p[3]], doc) }

(* C23: Validate fails for every document in which a pin config of any of the
   four mappings has a syncTechnologyConfigName that is not empty and not
   declared, and it never reports an undeclared name when every name used is
   declared. *)
C23_SyncTechnologyCrossReference ==
    Validated =>
        /\ EntriesWithUndeclaredName(cc) # {} => err # NoErr
        /\ err = "referenced sync technology config not found"
              => EntriesWithUndeclaredName(cc) # {}

(* C23 for an entry whose board label is in no later mapping. *)
C23_Unshadowed ==
    (Validated
       /\ \E p \in EntriesWithUndeclaredName(cc) :
             \A k \in (p[2] + 1)..4 :
                p[3] \notin DOMAIN Mappings(cc.structure[p[1]].dpll)[k])
        => err # NoErr

(* The check of the name never fails when every name used is declared. *)
C23_DeclaredAccepted ==
    (Validated /\ EntriesWithUndeclaredName(cc) = {})
        => err # "referenced sync technology config not found"

DeclaredSourceNames(doc) ==
    {doc.behavior[1].sources[i].name : i \in DOMAIN doc.behavior[1].sources}

(* <<ci, k>>: the source-states that name neither the sentinel nor a declared
   source. *)
UndeclaredReferences(doc) ==
    { p \in (DOMAIN doc.behavior[1].conditions) \X (1..2) :
          /\ p[2] \in DOMAIN doc.behavior[1].conditions[p[1]].sources
          /\ doc.behavior[1].conditions[p[1]].sources[p[2]].sourceName
                \notin DeclaredSourceNames(doc) \cup {"Default on profile (re)load"} }

DistinctSourceNames(doc) ==
    \A i, j \in DOMAIN doc.behavior[1].sources :
       doc.behavior[1].sources[i].name = doc.behavior[1].sources[j].name => i = j

(* C24: Validate succeeds only if every source-state of every condition
   names the sentinel or a declared source and the declared source names are
   pairwise distinct; a condition that names an undeclared source makes it
   fail. *)
C24_ConditionSourceCrossReference ==
    (Validated /\ cc.behavior # <<>>) =>
        /\ err = NoErr => UndeclaredReferences(cc) = {} /\ DistinctSourceNames(cc)
        /\ UndeclaredReferences(cc) # {} => pc = "exit1" /\ err # NoErr

C24_Witness ==
    /\ pc = "exit1"
    /\ cc.behavior # <<>>
    /\ err = "referenced source not found in condition"
    /\ UndeclaredReferences(cc) = {<<2, 2>>}
    /\ DeclaredSourceNames(cc) = {"PTP"}

----------------------------------------------------------------------------
(* Properties of the merge engine and the registry, continued *)

(* The entries the user wrote in what is condition ci after the merge: a
   synthesized default condition is at index 1 and has none. *)
UserStates(ci) ==
    LET before == Conditions(hist[1])
        shift == IF HasDefaultCondition(hist[1]) THEN 0 ELSE 1
    IN  IF ci - shift \in DOMAIN before THEN before[ci - shift].desiredStates ELSE <<>>

InRegistry(subsystem) == subsystem.hardwarePlugin \in DOMAIN pm[1].plugins

PluginMissing(subsystem) == subsystem.hardwarePlugin # "" /\ ~InRegistry(subsystem)

DefaultsOf(subsystem) == pm[1].plugins[subsystem.hardwarePlugin].specificDefaults

(* C14: with a subsystem whose hardwarePlugin is not in the registry, merge
   returns no error, appends no desired state for that subsystem, and every
   default condition gets an entry for each default with an EEC or a PPS of
   each subsystem whose plugin is in the registry. *)
C14_MissingPluginNonFatal ==
    (Len(hist) >= 2 /\ hist[1].behavior # <<>>
       /\ \E si \in DOMAIN hist[1].structure : PluginMissing(hist[1].structure[si])) =>
        /\ pc = "validate" => err = NoErr
        /\ \A n \in 2..Len(hist) :
              \A ci \in DOMAIN Conditions(hist[n]) :
                 LET after == Conditions(hist[n])[ci].desiredStates IN
                 IsDefaultCondition(Conditions(hist[n])[ci]) =>
                    /\ \A di \in (Len(UserStates(ci)) + 1)..Len(after) :
                          \E sj \in DOMAIN hist[1].structure :
                             /\ InRegistry(hist[1].structure[sj])
                             /\ after[di].clockID = hist[1].structure[sj].dpll.clockID
                             /\ after[di].boardLabel
                                   \in DOMAIN DefaultsOf(hist[1].structure[sj])
                    /\ \A sj \in DOMAIN hist[1].structure :
                          InRegistry(hist[1].structure[sj]) =>
                             \A label \in DOMAIN DefaultsOf(hist[1].structure[sj]) :
                                (\/ DefaultsOf(hist[1].structure[sj])[label].eec # <<>>
                                 \/ DefaultsOf(hist[1].structure[sj])[label].pps # <<>>)
                                => \E di \in DOMAIN after :
                                      /\ after[di].clockID
                                            = hist[1].structure[sj].dpll.clockID
                                      /\ after[di].boardLabel = label

C14_Witness ==
    /\ Len(hist) >= 2
    /\ pc = "validate" /\ err = NoErr
    /\ Len(hist[1].structure) = 2
    /\ PluginMissing(hist[1].structure[1])
    /\ InRegistry(hist[1].structure[2])
    /\ \E ci \in DOMAIN Conditions(hist[2]) :
          /\ IsDefaultCondition(Conditions(hist[2])[ci])
          /\ Len(Conditions(hist[2])[ci].desiredStates) > Len(UserStates(ci))

(* The entries of condition ci of hist[2] that the first merge appended or
   changed. *)
Touched(ci) ==
    LET after == Conditions(hist[2])[ci].desiredStates IN
    {di \in DOMAIN after : di > Len(UserStates(ci)) \/ after[di] # UserStates(ci)[di]}

(* C18 as stated: merge appends or overlays a desired state for a plugin
   board label only if the label is a key of one of the four pin mappings of
   the subsystem. *)
C18_Original ==
    (Len(hist) >= 2 /\ hist[1].behavior # <<>>) =>
        \A ci \in DOMAIN Conditions(hist[2]) :
           \A di \in Touched(ci) :
              \E sj \in DOMAIN hist[1].structure :
                 /\ InRegistry(hist[1].structure[sj])
                 /\ Conditions(hist[2])[ci].desiredStates[di].clockID
                       = hist[1].structure[sj].dpll.clockID
                 /\ Conditions(hist[2])[ci].desiredStates[di].boardLabel
                       \in DOMAIN DefaultsOf(hist[1].structure[sj])
                              \cap DeclaredLabels(hist[1].structure[sj].dpll)

(* C18: merge covers every board label of the plugin's specificDefaults that
   has an EEC or a PPS default, whether or not the label is a key of one of
   the subsystem's pin mappings: after merge each default condition has an
   entry with the subsystem's clock ID and that label. *)
C18_MergeCoversPluginLabels ==
    (Len(hist) >= 2 /\ hist[1].behavior # <<>>) =>
        \A ci \in DOMAIN Conditions(hist[2]) :
           IsDefaultCondition(Conditions(hist[2])[ci]) =>
              \A sj \in DOMAIN hist[1].structure :
                 InRegistry(hist[1].structure[sj]) =>
                    \A label \in DOMAIN DefaultsOf(hist[1].structure[sj]) :
                       (\/ DefaultsOf(hist[1].structure[sj])[label].eec # <<>>
                        \/ DefaultsOf(hist[1].structure[sj])[label].pps # <<>>)
                       => \E di \in DOMAIN Conditions(hist[2])[ci].desiredStates :
                             KeyOf(Conditions(hist[2])[ci].desiredStates[di])
                                = MergeKey(hist[1].structure[sj].dpll.clockID, label)

C18_Witness ==
    /\ Len(hist) >= 2
    /\ Len(hist[1].structure) = 1
    /\ InRegistry(hist[1].structure[1])
    /\ DeclaredLabels(hist[1].structure[1].dpll) = {}
    /\ \E ci \in DOMAIN Conditions(hist[2]) :
          \E di \in Touched(ci) :
             /\ di > Len(UserStates(ci))
             /\ Conditions(hist[2])[ci].desiredStates[di].boardLabel = SMA1

----------------------------------------------------------------------------
(* The registry on its own: NewPluginManager on a directory, then lookups *)

MaxFiles == 3

(* A second plugin file that names itself e810. *)
E810Other ==
    [pluginInfo |-> [name |-> "e810"],
     specificDefaults |-> (SMA1 :> [eec |-> <<>>, pps |-> PinState(<<1>>, "")])]

FileMenu ==
    { File(".yaml", FALSE, <<E810>>), File(".yml", FALSE, <<GNRD>>),
      File(".yaml", FALSE, <<E810Other>>), File(".yaml", FALSE, <<Unnamed>>),
      File(".yml", FALSE, <<>>), File(".md", FALSE, <<GNRD>>),
      File(".yaml", TRUE, <<>>) }

PluginNames == {"e810", "gnr-d", "timestone", ""}

InitRegistry ==
    /\ pc = "call"
    /\ \/ arg = [dir |-> <<>>]
       \/ arg = [dir |-> <<[readable |-> FALSE, files |-> <<>>]>>]
       \/ \E files \in SeqsUpTo(FileMenu, MaxFiles) :
             arg = [dir |-> <<[readable |-> TRUE, files |-> files]>>]
    /\ ret = <<>>
    /\ cc = <<>>
    /\ cc0 = <<>>
    /\ pluginsDir = "absent"
    /\ pm = <<>>
    /\ loop = NoLoop
    /\ existingStates = EmptyMap
    /\ stale = <<>>
    /\ hist = <<>>
    /\ err = NoErr

CallNewPluginManager ==
    /\ pc = "call"
    /\ LET r == NewPluginManager(arg.dir) IN
        /\ pm' = r.pm
        /\ err' = r.err
    /\ pc' = "loaded"
    /\ UNCHANGED <<cc, cc0, pluginsDir, loop, existingStates, stale, hist, arg, ret>>

CallGetPlugin ==
    /\ pc = "loaded" /\ pm # <<>>
    /\ \E name \in PluginNames :
          ret' = [fn |-> "GetPlugin", name |-> name, plugin |-> GetPlugin(pm[1], name)]
    /\ pc' = "queried"
    /\ UNCHANGED <<cc, cc0, pluginsDir, pm, loop, existingStates, stale, hist, err, arg>>

(* The names come out in the order of a map iteration: any order. *)
CallListPlugins ==
    /\ pc = "loaded" /\ pm # <<>>
    /\ \E names \in DistinctSeqsUpTo(ListPlugins(pm[1]), Cardinality(ListPlugins(pm[1]))) :
          /\ Range(names) = ListPlugins(pm[1])
          /\ ret' = [fn |-> "ListPlugins", names |-> names]
    /\ pc' = "queried"
    /\ UNCHANGED <<cc, cc0, pluginsDir, pm, loop, existingStates, stale, hist, err, arg>>

NextRegistry == CallNewPluginManager \/ CallGetPlugin \/ CallListPlugins

SpecRegistry == InitRegistry /\ [][NextRegistry]_vars

(* C15: loading the registry from a directory that does not exist succeeds,
   GetPlugin then finds no plugin under any name and ListPlugins returns no
   name. *)
C15_MissingDirectoryEmptyRegistry ==
    (arg.dir = <<>> /\ pc # "call") =>
        /\ err = NoErr
        /\ pm # <<>>
        /\ pc = "queried" =>
              /\ ret.fn = "GetPlugin" => ret.plugin = <<>>
              /\ ret.fn = "ListPlugins" => ret.names = <<>>

C15_Witness ==
    /\ arg.dir = <<>>
    /\ pc = "queried"
    /\ ret.fn = "GetPlugin" /\ ret.name = "e810"

PluginFilesOf(dir) == {i \in DOMAIN dir.files : IsPluginFile(dir.files[i])}

Malformed(file) == file.content = <<>> \/ file.content[1].pluginInfo.name = ""

(* C16: when a .yaml or .yml file of the directory does not decode or has an
   empty pluginInfo.name, NewPluginManager returns an error and no registry,
   however many files were loaded before it; when all of them are well
   formed, the names in the registry are exactly their pluginInfo.name
   values, other files and sub-directories adding none. *)
C16_AllOrNothingLoad ==
    (pc # "call" /\ arg.dir # <<>> /\ arg.dir[1].readable) =>
        LET dir == arg.dir[1] IN
        IF \E i \in PluginFilesOf(dir) : Malformed(dir.files[i])
        THEN err # NoErr /\ pm = <<>>
        ELSE /\ err = NoErr
             /\ pm # <<>>
             /\ ListPlugins(pm[1])
                   = {dir.files[i].content[1].pluginInfo.name : i \in PluginFilesOf(dir)}

C16_Witness ==
    /\ pc = "loaded"
    /\ arg.dir # <<>>
    /\ Len(arg.dir[1].files) = 3
    /\ \A i \in 1..2 : IsPluginFile(arg.dir[1].files[i]) /\ ~Malformed(arg.dir[1].files[i])
    /\ IsPluginFile(arg.dir[1].files[3]) /\ Malformed(arg.dir[1].files[3])
    /\ err # NoErr /\ pm = <<>>

----------------------------------------------------------------------------
(* main from the reading of the configuration file to the exit *)

(* Behaviors of the files read: none, no condition, a default condition with
   a user state, a condition on a source that is not declared. *)
MainBehaviors ==
    { <<>> } \cup
    { <<[sources |-> <<[name |-> "PTP", clockID |-> AliasGM, sourceType |-> "gnss",
                       boardLabel |-> GNSS_1PPS, ptpTimeReceivers |-> <<>>]>>,
         conditions |-> conditions]>> :
          conditions \in { <<>>,
                           <<Condition("Default Configuration", <<DefaultSource>>,
                                       <<UserStateMenu[1]>>)>>,
                           <<Condition("Lost",
                                       <<[sourceName |-> "GNSS", conditionType |-> "lost"]>>,
                                       <<>>)>> } }

(* arg is the file named on the command line: content is <<>> when it does
   not decode. *)
InitMain ==
    /\ pc = "read"
    /\ \/ arg = [readable |-> FALSE, content |-> <<>>]
       \/ arg = [readable |-> TRUE, content |-> <<>>]
       \/ \E commonDefinitions \in {<<>>, Definitions},
             structure \in DistinctSeqsUpTo(SubsystemMenu, MaxSubsystems),
             behavior \in MainBehaviors :
             arg = [readable |-> TRUE,
                    content |-> <<[commonDefinitions |-> commonDefinitions,
                                   structure |-> structure, behavior |-> behavior]>>]
       \/ \E aliases \in {<<>>, <<[alias |-> AliasGM, clockID |-> Eleven]>>},
             dpllID \in FieldValues, behavior \in ResolveBehaviors :
             arg = [readable |-> TRUE,
                    content |-> <<[commonDefinitions |->
                                      <<[eSyncDefinitions |-> <<>>, refSyncDefinitions |-> <<>>,
                                         clockIdentifiers |-> aliases]>>,
                                   structure |-> <<Subsystem("My System", dpllID, "e810",
                                                             NoPins)>>,
                                   behavior |-> behavior]>>]
    /\ pluginsDir \in DOMAIN Directories
    /\ cc = <<>>
    /\ cc0 = <<>>
    /\ pm = <<>>
    /\ loop = NoLoop
    /\ existingStates = EmptyMap
    /\ stale = <<>>
    /\ hist = <<>>
    /\ err = NoErr
    /\ ret = <<>>

ReadFile ==
    /\ pc = "read"
    /\ IF arg.readable
       THEN pc' = "parse" /\ err' = NoErr
       ELSE pc' = "exit1" /\ err' = "Error reading file"
    /\ UNCHANGED <<cc, cc0, pluginsDir, pm, loop, existingStates, stale, hist, arg, ret>>

ParseYAML ==
    /\ pc = "parse"
    /\ IF arg.content # <<>>
       THEN pc' = "resolve" /\ err' = NoErr /\ cc' = arg.content[1]
       ELSE pc' = "exit1" /\ err' = "Error parsing YAML" /\ cc' = cc
    /\ UNCHANGED <<cc0, pluginsDir, pm, loop, existingStates, stale, hist, arg, ret>>

NextMain == ReadFile \/ ParseYAML \/ Resolve \/ Load \/ MergeBegin \/ ApplyStep \/ Validate

SpecMain == InitMain /\ [][NextMain]_vars

LoadFails == pc = "load" /\ NewPluginManager(Directories[pluginsDir]).err # NoErr

ReadFails == pc = "read" /\ ~arg.readable

DecodeFails == pc = "parse" /\ arg.content = <<>>

ResolveFails == pc = "resolve" /\ ResolveClockAliases(cc).err # NoErr

ValidateFails == pc = "validate" /\ NoErr \notin ValidateErrs(cc)

StageFails == ReadFails \/ DecodeFails \/ ResolveFails \/ ValidateFails

ExitZeroJustified ==
    pc = "done" =>
        /\ arg.readable
        /\ arg.content # <<>>
        /\ ResolveClockAliases(arg.content[1]).err = NoErr
        /\ ValidateErrs(cc) = {NoErr}

(* C17: a registry that fails to load never stops the run before Validate:
   the step that fails to load goes on to Validate with no registry and the
   document as resolution left it, and the step taken there is Validate's
   verdict on that document; a step of reading, decoding, alias resolution
   or validation that fails ends the run with exit code 1, after which the
   run takes no step, so never prints the success message; exit code 0
   happens only when the file was read and decoded and resolution and
   validation found no error. *)
C17_PipelineAsymmetry ==
    /\ [][/\ LoadFails => (pc' = "validate" /\ pm' = <<>> /\ cc' = cc /\ hist' = <<cc>>)
          /\ (pc = "validate" /\ pm = <<>>) =>
                /\ cc' = hist[1]
                /\ err' \in ValidateErrs(hist[1])
                /\ pc' = IF err' = NoErr THEN "done" ELSE "exit1"
          /\ StageFails => pc' = "exit1"
          /\ pc = "exit1" => pc' = "exit1"]_vars
    /\ []ExitZeroJustified

C17_Witness ==
    /\ pc = "done"
    /\ pm = <<>>
    /\ NewPluginManager(Directories[pluginsDir]).err # NoErr
    /\ hist = <<cc>>

----------------------------------------------------------------------------
(* MergeUserConfigWithDefaults on its own: a resolved document and a loaded
   registry *)

(* A plugin with a label that declares neither EEC nor PPS. *)
Bare ==
    [pluginInfo |-> [name |-> "bare"],
     specificDefaults |->
        (GNSS_1PPS :> [eec |-> PinState(<<2>>, ""), pps |-> <<>>])
        @@ (SMA1 :> [eec |-> <<>>, pps |-> <<>>])]

MergeRegistry == [plugins |-> ("e810" :> E810) @@ ("gnr-d" :> GNRD) @@ ("bare" :> Bare)]

MergeSubsystemMenu ==
    { Subsystem("My System", Clock112233, "e810", GNSS_1PPS :> Pin(<<1>>)),
      Subsystem("Follower", Clock112233, "gnr-d", NoPins),
      Subsystem("Bare", Clock112233, "bare", NoPins),
      Subsystem("Anonymous", <<>>, "e810", NoPins),
      Subsystem("Anonymous follower", <<>>, "gnr-d", NoPins),
      Subsystem("Other", Clock42, "timestone", NoPins),
      Subsystem("Unresolved", BadClock, "e810", NoPins) }

MergeUserStateMenu ==
    << DesiredState(Clock112233, GNSS_1PPS, PinState(<<5>>, ""), <<>>),
       DesiredState(Clock112233, SMA1, <<>>, PinState(<<>>, "disconnected")),
       DesiredState(<<>>, GNSS_1PPS, <<>>, <<>>),
       DesiredState(Clock112233, GNSS_1PPS, <<>>, <<>>) >>

InitMerge ==
    /\ pc = "merge"
    /\ \E structure \in DistinctSeqsUpTo(MergeSubsystemMenu, MaxSubsystems) \ {<<>>},
          desiredStates \in SubSeqsUpTo(MergeUserStateMenu, MaxUserStates),
          shape \in {"no behavior", "none", "default", "locked, default",
                     "lost, unsourced"} :
          /\ shape \in {"no behavior", "none", "lost, unsourced"} => desiredStates = <<>>
          /\ LET default == Condition("Default Configuration", <<DefaultSource>>,
                                      desiredStates)
                 locked == Condition("Locked",
                                     <<[sourceName |-> "PTP", conditionType |-> "locked"]>>,
                                     <<MergeUserStateMenu[1]>>)
                 lost == Condition("Lost",
                                   <<[sourceName |-> "GNSS", conditionType |-> "lost"]>>,
                                   <<MergeUserStateMenu[2]>>)
                 unsourced == Condition("No sources", <<>>, <<MergeUserStateMenu[4]>>)
                 conditions == CASE shape = "none" -> <<>>
                                 [] shape = "default" -> <<default>>
                                 [] shape = "locked, default" -> <<locked, default>>
                                 [] OTHER -> <<lost, unsourced>>
             IN  cc = [commonDefinitions |-> Definitions, structure |-> structure,
                       behavior |->
                          IF shape = "no behavior" THEN <<>>
                          ELSE <<[sources |-> <<Source("PTP", Clock42, "gnss", <<>>)>>,
                                  conditions |-> conditions]>>]
    /\ pm = <<MergeRegistry>>
    /\ hist = <<cc>>
    /\ pluginsDir = "plugins"
    /\ loop = NoLoop
    /\ existingStates = EmptyMap
    /\ stale = <<>>
    /\ err = NoErr
    /\ cc0 = <<>>
    /\ arg = <<>>
    /\ ret = <<>>

NextMerge == MergeBegin \/ ApplyStep

SpecMerge == InitMerge /\ [][NextMerge]_vars

DistinctKeys(desiredStates) ==
    \A i, j \in DOMAIN desiredStates :
       KeyOf(desiredStates[i]) = KeyOf(desiredStates[j]) => i = j

(* C19: when the user's desired states of a default condition have pairwise
   distinct merge keys, all entries of the condition have pairwise distinct
   merge keys after merge, and no appended entry has the key of a user
   entry: subsystems with the same clock ID, or both with none, whose plugins
   declare the same label give one entry for the key. *)
C19_MergeKeysUnique ==
    Len(hist) >= 2 =>
        \A ci \in DOMAIN Conditions(hist[2]) :
           LET after == Conditions(hist[2])[ci].desiredStates IN
           (IsDefaultCondition(Conditions(hist[2])[ci]) /\ DistinctKeys(UserStates(ci))) =>
              /\ DistinctKeys(after)
              /\ \A di \in (Len(UserStates(ci)) + 1)..Len(after) :
                    \A k \in DOMAIN UserStates(ci) :
                       KeyOf(after[di]) # KeyOf(UserStates(ci)[k])

C19_Witness ==
    /\ Len(hist) = 2
    /\ Len(hist[1].structure) = 2
    /\ \A sj \in 1..2 : hist[1].structure[sj].dpll.clockID = <<>>
    /\ \E ci \in DOMAIN Conditions(hist[2]) :
          /\ UserStates(ci) = <<MergeUserStateMenu[3]>>
          /\ Len(Conditions(hist[2])[ci].desiredStates) = 2

(* The defaults that registered plugins declare for the key of a state. *)
DefaultsFor(state) ==
    { DefaultsOf(hist[1].structure[sj])[state.boardLabel] :
         sj \in { sk \in DOMAIN hist[1].structure :
                     /\ InRegistry(hist[1].structure[sk])
                     /\ state.clockID = hist[1].structure[sk].dpll.clockID
                     /\ state.boardLabel \in DOMAIN DefaultsOf(hist[1].structure[sk]) } }

(* C20 as stated, on the merged document: every appended desired state has
   the clock ID of a subsystem whose plugin is in the registry, a board label
   of that plugin's specificDefaults, and an EEC and a PPS that are each
   absent or that plugin's default for the label. *)
C20_Original ==
    Len(hist) >= 2 =>
        \A ci \in DOMAIN Conditions(hist[2]) :
           LET after == Conditions(hist[2])[ci].desiredStates IN
           \A di \in (Len(UserStates(ci)) + 1)..Len(after) :
              \E d \in DefaultsFor(after[di]) :
                 /\ after[di].eec \in {<<>>, d.eec}
                 /\ after[di].pps \in {<<>>, d.pps}
                 /\ after[di].eec # <<>> \/ after[di].pps # <<>>

(* C20: the desired state that a step of merge appends has the clock ID of
   the subsystem being processed, whose plugin is in the registry, a board
   label of that plugin's specificDefaults, an EEC and a PPS that are absent
   or the plugin's default for the label, and at least one of the two, so a
   plugin entry with neither appends nothing; in the merged document every
   appended entry has an EEC or a PPS, a key for which a registered plugin
   declares an EEC or a PPS, and an EEC and a PPS that are each absent or the
   default of some registered plugin for that key. *)
C20_AppendedProvenance ==
    /\ [][pc = "apply" =>
            LET subsystem == cc.structure[loop.si]
                before == cc.behavior[1].conditions[loop.ci].desiredStates
                after == cc'.behavior[1].conditions[loop.ci].desiredStates
                new == after[Len(after)]
            IN  /\ Len(after) \in {Len(before), Len(before) + 1}
                /\ Len(after) > Len(before) =>
                      /\ InRegistry(subsystem)
                      /\ new.clockID = subsystem.dpll.clockID
                      /\ new.boardLabel \in DOMAIN DefaultsOf(subsystem) \cap loop.pending
                      /\ new.eec = DefaultsOf(subsystem)[new.boardLabel].eec
                      /\ new.pps = DefaultsOf(subsystem)[new.boardLabel].pps
                      /\ new.eec # <<>> \/ new.pps # <<>>]_vars
    /\ [](Len(hist) >= 2 =>
            \A ci \in DOMAIN Conditions(hist[2]) :
               LET after == Conditions(hist[2])[ci].desiredStates IN
               \A di \in (Len(UserStates(ci)) + 1)..Len(after) :
                  /\ after[di].eec # <<>> \/ after[di].pps # <<>>
                  /\ \E d \in DefaultsFor(after[di]) : d.eec # <<>> \/ d.pps # <<>>
                  /\ after[di].eec \in {<<>>} \cup {d.eec : d \in DefaultsFor(after[di])}
                  /\ after[di].pps \in {<<>>} \cup {d.pps : d \in DefaultsFor(after[di])})

C20_Witness ==
    /\ Len(hist) = 2
    /\ Len(hist[1].structure) = 1
    /\ hist[1].structure[1].hardwarePlugin = "bare"
    /\ \E ci \in DOMAIN Conditions(hist[2]) :
          /\ UserStates(ci) = <<>>
          /\ Conditions(hist[2])[ci].desiredStates
                = <<DesiredState(Clock112233, GNSS_1PPS, PinState(<<2>>, ""), <<>>)>>

(* The byte order of the characters of the board labels. *)
LabelChars == <<"1", "A", "G", "M", "N", "P", "S", "_">>

CharRank(c) == CHOOSE k \in DOMAIN LabelChars : LabelChars[k] = c

RECURSIVE LexLess(_, _)
LexLess(a, b) ==
    IF b = <<>> THEN FALSE
    ELSE IF a = <<>> THEN TRUE
    ELSE IF CharRank(Head(a)) # CharRank(Head(b)) THEN CharRank(Head(a)) < CharRank(Head(b))
    ELSE LexLess(Tail(a), Tail(b))

(* C25: the desired states that merge appends for a subsystem are in the
   sorted order of their board labels, whatever the order of the map
   iteration: for a registered subsystem that shares its clock ID with no
   other registered subsystem, the appended entries with that clock ID have
   ascending labels. *)
C25_DeterministicMergeOrder ==
    Len(hist) >= 2 =>
        \A sj \in DOMAIN hist[1].structure :
           (/\ InRegistry(hist[1].structure[sj])
            /\ \A sk \in DOMAIN hist[1].structure :
                  (InRegistry(hist[1].structure[sk])
                     /\ hist[1].structure[sk].dpll.clockID = hist[1].structure[sj].dpll.clockID)
                  => sk = sj) =>
           \A ci \in DOMAIN Conditions(hist[2]) :
              LET after == Conditions(hist[2])[ci].desiredStates IN
              \A di, dj \in (Len(UserStates(ci)) + 1)..Len(after) :
                 (/\ di < dj
                  /\ after[di].clockID = hist[1].structure[sj].dpll.clockID
                  /\ after[dj].clockID = hist[1].structure[sj].dpll.clockID)
                 => LexLess(after[di].boardLabel, after[dj].boardLabel)

(* Whatever the order, the labels appended for such a subsystem are the same. *)
C25_SameLabelsInEveryOrder ==
    Len(hist) >= 2 =>
        \A sj \in DOMAIN hist[1].structure :
           (/\ InRegistry(hist[1].structure[sj])
            /\ \A sk \in DOMAIN hist[1].structure :
                  (InRegistry(hist[1].structure[sk])
                     /\ hist[1].structure[sk].dpll.clockID = hist[1].structure[sj].dpll.clockID)
                  => sk = sj) =>
           \A ci \in DOMAIN Conditions(hist[2]) :
              LET after == Conditions(hist[2])[ci].desiredStates
                  user == UserStates(ci)
              IN  IsDefaultCondition(Conditions(hist[2])[ci]) =>
                     {after[di].boardLabel : di \in {d \in (Len(user) + 1)..Len(after) :
                         after[d].clockID = hist[1].structure[sj].dpll.clockID}}
                     = {label \in DOMAIN DefaultsOf(hist[1].structure[sj]) :
                           /\ \/ DefaultsOf(hist[1].structure[sj])[label].eec # <<>>
                              \/ DefaultsOf(hist[1].structure[sj])[label].pps # <<>>
                           /\ \A k \in DOMAIN user :
                                 KeyOf(user[k])
                                    # MergeKey(hist[1].structure[sj].dpll.clockID, label)}

(* Alias resolution has returned without error in this run of main. *)
ResolvedWithoutError ==
    \/ pc \in {"load", "merge", "apply", "validate", "done"}
    \/ pc = "exit1" /\ hist # <<>>

(* C26: after ResolveClockAliases has returned without error, every DPLL,
   source and desired-state clock ID of the document is empty or has the
   clock-ID format, through merge and up to the end of the run; so Validate
   never reports a DPLL or a desired-state clock ID, and reports a source
   clock ID only when some source has an empty clock ID. *)
C26_PostResolutionFormat ==
    ResolvedWithoutError =>
        /\ \A p \in FieldPaths(cc) :
              ValueAt(cc, p) = <<>> \/ HasClockIDFormat(ValueAt(cc, p))
        /\ pc = "exit1" =>
              /\ err \notin {"invalid clock ID in subsystem",
                             "invalid clock ID in desired state"}
              /\ err = "invalid source: invalid clock ID" =>
                    \E i \in DOMAIN cc.behavior[1].sources :
                       cc.behavior[1].sources[i].clockID = <<>>

C26_Witness ==
    /\ pc = "exit1" /\ hist # <<>>
    /\ err = "invalid source: invalid clock ID"
    /\ cc0.structure[1].dpll.clockID = AliasGM
    /\ cc.structure[1].dpll.clockID = Eleven
    /\ cc0.behavior[1].conditions[1].desiredStates[1].clockID = AliasGM
    /\ \E di \in DOMAIN cc.behavior[1].conditions[1].desiredStates :
          cc.behavior[1].conditions[1].desiredStates[di].clockID = Eleven

(* C27: Validate succeeds on the document after
   MergeUserConfigWithDefaults exactly when it succeeds on the document
   before it: the synthesized condition and the appended desired states
   neither add a violation nor hide one. *)
C27_MergeKeepsVerdict ==
    Len(hist) >= 2 =>
        \A n \in 2..Len(hist) :
           (NoErr \in ValidateErrs(hist[n])) <=> (NoErr \in ValidateErrs(hist[1]))

C27_Witness ==
    /\ Len(hist) >= 2
    /\ Conditions(hist[1]) = <<>>
    /\ Len(Conditions(hist[2])) = 1
    /\ Len(Conditions(hist[2])[1].desiredStates) = 2
    /\ ValidateErrs(hist[1]) = {NoErr}
    /\ ValidateErrs(hist[2]) = {NoErr}

(* C28: on a document with no behavior section MergeUserConfigWithDefaults
   returns no error at once and leaves the document as it was: no behavior
   section, no condition, no plugin default, also when subsystems name
   plugins of the registry. *)
C28_NoBehaviorNoMerge ==
    (hist # <<>> /\ hist[1].behavior = <<>>) =>
        /\ pc \in {"merge", "validate"}
        /\ cc = hist[1]
        /\ cc.behavior = <<>>
        /\ pc = "validate" => (err = NoErr /\ hist = <<cc, cc>>)

C28_Witness ==
    /\ pc = "validate"
    /\ Len(hist) = 2
    /\ hist[1].behavior = <<>>
    /\ \A sj \in DOMAIN hist[1].structure : InRegistry(hist[1].structure[sj])
    /\ Len(hist[1].structure) = 2

(* The conditions of doc from index off + 1 on are those of orig, with the
   desired states of a condition free to differ only where its first
   source-state has the type "default". *)
ConditionsFramed(orig, doc, off) ==
    /\ Len(Conditions(doc)) = Len(Conditions(orig)) + off
    /\ \A i \in DOMAIN Conditions(orig) :
          LET o == Conditions(orig)[i]
              n == Conditions(doc)[i + off]
          IN  /\ n.name = o.name
              /\ n.sources = o.sources
              /\ ~(Len(o.sources) > 0 /\ o.sources[1].conditionType = "default")
                    => n.desiredStates = o.desiredStates

(* C29: MergeUserConfigWithDefaults returns no error and changes only the
   conditions sequence, by at most one condition put first, and the desired
   states of conditions whose first source-state has the type "default";
   "locked" and "lost" conditions and conditions without source-states keep
   their desired states, and commonDefinitions, structure, behavior.sources
   and the plugin registry stay as they were. *)
C29_MergeFrame ==
    /\ err = NoErr
    /\ pm = <<MergeRegistry>>
    /\ cc.commonDefinitions = hist[1].commonDefinitions
    /\ cc.structure = hist[1].structure
    /\ (cc.behavior = <<>>) = (hist[1].behavior = <<>>)
    /\ cc.behavior # <<>> =>
          /\ cc.behavior[1].sources = hist[1].behavior[1].sources
          /\ \/ ConditionsFramed(hist[1], cc, 0)
             \/ /\ ConditionsFramed(hist[1], cc, 1)
                /\ Conditions(cc)[1].name = defaultCondition.name
                /\ Conditions(cc)[1].sources = defaultCondition.sources
    /\ Len(hist) = 2 => hist[2] = cc

C29_Witness ==
    /\ Len(hist) = 2
    /\ Len(Conditions(hist[1])) = 2
    /\ Len(Conditions(hist[2])) = 3
    /\ Conditions(hist[2])[1].desiredStates # <<>>
    /\ Conditions(hist[1])[1].sources[1].conditionType = "lost"
    /\ Conditions(hist[1])[2].sources = <<>>
    /\ Conditions(hist[2])[2].desiredStates # <<>>
    /\ Conditions(hist[2])[3].desiredStates # <<>>

(* a document with a "locked" condition before a "default" condition that
   merge fills *)
C29_WitnessLocked ==
    /\ Len(hist) = 2
    /\ Len(Conditions(hist[1])) = 2
    /\ Conditions(hist[1])[1].sources[1].conditionType = "locked"
    /\ Conditions(hist[2])[2].desiredStates # Conditions(hist[1])[2].desiredStates

(* Consecutive calls of MergeUserConfigWithDefaults on one document, with the
   plugins e810 and gnr-d in the registry.  The conditions are the ones that
   are not default and one default condition, in every order. *)
RunConditions ==
    OtherConditions \cup
        {Condition("Default Configuration", <<DefaultSource>>, <<UserStateMenu[1]>>)}

InitRuns ==
    /\ pc = "merge"
    /\ \E structure \in DistinctSeqsUpTo(SubsystemMenu, MaxSubsystems) \ {<<>>},
          conditions \in DistinctSeqsUpTo(RunConditions, MaxConditions) :
          cc = [commonDefinitions |-> Definitions, structure |-> structure,
                behavior |-> <<[sources |-> <<>>, conditions |-> conditions]>>]
    /\ pm = <<MergeRegistry>>
    /\ hist = <<cc>>
    /\ pluginsDir = "plugins"
    /\ loop = NoLoop
    /\ existingStates = EmptyMap
    /\ stale = <<>>
    /\ err = NoErr
    /\ cc0 = <<>>
    /\ arg = <<>>
    /\ ret = <<>>

(* The caller runs MergeUserConfigWithDefaults on the document it got back *)
RunAgain ==
    /\ pc = "validate"
    /\ Len(hist) - 1 < MaxRuns
    /\ pc' = "merge"
    /\ UNCHANGED <<cc, cc0, pluginsDir, pm, loop, existingStates, stale, hist, err, arg, ret>>

NextRuns == MergeBegin \/ ApplyStep \/ RunAgain

SpecRuns == InitRuns /\ [][NextRuns]_vars

(* The conditions of doc that the conditions of orig do not account for:
   those before the original ones, which keep their names and sources. *)
AddedByMerge(orig, doc) ==
    LET off == Len(Conditions(doc)) - Len(Conditions(orig)) IN
    IF /\ off >= 0
       /\ \A i \in DOMAIN Conditions(orig) :
             /\ Conditions(doc)[i + off].name = Conditions(orig)[i].name
             /\ Conditions(doc)[i + off].sources = Conditions(orig)[i].sources
    THEN off
    ELSE -1

(* C30: over consecutive runs of MergeUserConfigWithDefaults on a document
   with a behavior section the conditions sequence is at most one longer
   than the original, holds at most one condition that merge added, and
   gains none when the original had a condition, at any index, whose first
   source-state has the type "default". *)
C30_AtMostOneSynthesized ==
    (hist # <<>> /\ hist[1].behavior # <<>>) =>
        \A n \in 1..(Len(hist) + 1) :
            LET doc == IF n <= Len(hist) THEN hist[n] ELSE cc IN
            /\ Len(Conditions(doc)) <= Len(Conditions(hist[1])) + 1
            /\ AddedByMerge(hist[1], doc) \in {0, 1}
            /\ HasDefaultCondition(hist[1]) => AddedByMerge(hist[1], doc) = 0

C30_Witness ==
    /\ Len(hist) = MaxRuns + 1
    /\ ~HasDefaultCondition(hist[1])
    /\ Len(Conditions(hist[1])) = 2
    /\ \A n \in 2..Len(hist) :
          /\ Len(Conditions(hist[n])) = 3
          /\ Conditions(hist[n])[1].name = defaultCondition.name
    /\ Conditions(hist[2])[1].desiredStates # <<>>

(* two runs on a document whose default condition is at index 2 *)
C30_WitnessDefaultSecond ==
    /\ Len(hist) = MaxRuns + 1
    /\ Len(Conditions(hist[1])) = 2
    /\ ~IsDefaultCondition(Conditions(hist[1])[1])
    /\ IsDefaultCondition(Conditions(hist[1])[2])
    /\ Len(Conditions(hist[3])) = 2

====
